---- MODULE Spec2Model ----
(***************************************************************************)
(* Geofence evaluation engine of the emergency-coordination application:   *)
(* convex/geofences.ts, convex/alerts.ts (updateLocation) and              *)
(* convex/api.ts (updateExternalLocation).                                 *)
(*                                                                         *)
(* Every handler is a Convex mutation or internalMutation.  The platform   *)
(* runs a mutation as one serializable transaction with Date.now() frozen  *)
(* at its start, and a handler that throws commits nothing; so one action  *)
(* of this module is one whole handler.  Functions handed to               *)
(* ctx.scheduler.runAfter(0, ...) wait in the scheduler's table and run    *)
(* later, each as a transaction of its own, in no guaranteed order.        *)
(***************************************************************************)
EXTENDS Integers, Sequences, FiniteSets, TLC

VARIABLES
    now,              \* Date.now(): milliseconds since the start of the run
    sessions,         \* table "sessions", in creation order
    participants,     \* table "participants", in creation order
    geofences,        \* table "geofences": geofences[id] is <<>> once deleted
    locations,        \* table "locations", in creation order
    geofenceEvents,   \* table "geofenceEvents", in creation order
    alerts,           \* table "alerts"
    messages,         \* table "messages"
    notifications,    \* table "notifications"
    scheduledChecks,  \* scheduler: pending checkGeofenceEvents calls
    scheduledAlerts,  \* scheduler: pending createGeofenceAlert calls
    accepted,         \* number of location samples accepted so far
    handed,           \* the arguments of the checkGeofenceEvents calls made so
                      \* far, in the order in which the samples were accepted
    failedAlerts,     \* scheduler: createGeofenceAlert calls that have thrown
    call,             \* arguments of a call of a helper function
    returned          \* what the helper function has returned for them

vars == << now, sessions, participants, geofences, locations, geofenceEvents, alerts,
           messages, notifications, scheduledChecks, scheduledAlerts, accepted,
           handed, failedAlerts, call, returned >>

----------------------------------------------------------------------------
(* Bounds of the model *)

(* Clock steps taken *)
MaxTicks == 2
(* Vertices of a polygon handed to isPointInPolygon *)
MaxVertices == 3
(* Location samples accepted from several (session, user) pairs *)
MaxPairSamples == 2
(* Location samples accepted plus geofences created after the first one, *)
(* with administration and acknowledgements                               *)
MaxLifecycleCalls == 1
(* Location samples accepted through the two ingestion paths together *)
MaxIngested == 2
(* Location samples accepted while the geofence is left alone *)
MaxSamples == 3
(* Location samples accepted plus geofences created, with administration *)
MaxCalls == 2

(* One clock step: five minutes, in milliseconds *)
TickMs == 300 * 1000

(* Only create violation if no recent one (within 5 minutes) *)
Cooldown == 300000

----------------------------------------------------------------------------
(* Optional values: v.optional(...) fields and query results *)

None == << >>
Some(x) == << x >>
IsSome(o) == Len(o) > 0
Get(o) == o[1]

Users == { "u1", "u2", "u3" }
Sessions == { "s1", "s2" }
NoUser == "anonymous"

(* generateShareCode(): six characters of Math.random() in base 36; two    *)
(* sessions can draw the same code                                         *)
ShareCodes == { "K3X9QA", "7ZP0LM" }

Session(id, creatorId, shareCode) ==
    [ id |-> id, creatorId |-> creatorId, active |-> TRUE, shareCode |-> shareCode ]

(* table "sessions" where the sessions are given: s1 created by u1, s2     *)
(* created by u3                                                           *)
SessionsTable == << Session("s1", "u1", "K3X9QA"), Session("s2", "u3", "7ZP0LM") >>

Point(lat, lng) == [ lat |-> lat, lng |-> lng ]

(* Sample locations the clients report, in units of a thousandth of a      *)
(* degree next to (0, 0)                                                   *)
PIn == Point(1, 1)
POut == Point(3, 3)
SampleLocations == { PIn, POut }

----------------------------------------------------------------------------
(* Geometry helpers *)

(* Decimetres per coordinate unit: R * PI / 180 metres per degree, R the   *)
(* Earth's radius 6371000 m.  For points within a few thousandths of a     *)
(* degree of (0, 0) the haversine distance is this factor times the        *)
(* Euclidean distance of the coordinates (cos(lat) = 1 to nine digits).    *)
DmPerUnit == (6371 * 31416) \div 180000

Sq(x) == x * x

(* distance <= radius, both squared, in square decimetres *)
isPointInCircle(point, center, radius) ==
    Sq(DmPerUnit) * (Sq(point.lat - center.lat) + Sq(point.lng - center.lng))
        <= Sq(10 * radius)

(* A JavaScript number is an IEEE double: the result of an operation is    *)
(* the representable number nearest to the exact one, ties to even.  The   *)
(* model's representable numbers are the integers: sums, differences and   *)
(* products of coordinates are exact, and a quotient is rounded.           *)
Quotient(n, d) ==
    LET num == IF d < 0 THEN 0 - n ELSE n
        den == IF d < 0 THEN 0 - d ELSE d
        q == IF num >= 0 THEN num \div den ELSE 0 - ((0 - num + den - 1) \div den)
        r == num - q * den
    IN  IF 2 * r < den THEN q
        ELSE IF 2 * r > den THEN q + 1
        ELSE IF q % 2 = 0 THEN q ELSE q + 1

(* point.lng < (xj - xi) * (point.lat - yi) / (yj - yi) + xi; yj # yi      *)
(* where the code evaluates it                                             *)
LeftOfEdge(point, vi, vj) ==
    point.lng < Quotient((vj.lng - vi.lng) * (point.lat - vi.lat),
                         vj.lat - vi.lat) + vi.lng

Crosses(point, vi, vj) ==
    /\ (vi.lat > point.lat) # (vj.lat > point.lat)
    /\ LeftOfEdge(point, vi, vj)

(* the loop of isPointInPolygon from index i on: j is the index before i,  *)
(* the last one for the first i                                            *)
RECURSIVE PolygonLoop(_, _, _, _)
PolygonLoop(point, polygon, i, inside) ==
    IF i > Len(polygon) THEN inside
    ELSE LET j == IF i = 1 THEN Len(polygon) ELSE i - 1
         IN  PolygonLoop(point, polygon, i + 1,
                         IF Crosses(point, polygon[i], polygon[j])
                         THEN ~inside ELSE inside)

(* Mutation of isPointInPolygon: the loop starts at the second vertex, so  *)
(* the edge that closes the polygon is not tested                          *)
isPointInPolygon_Open(point, polygon) == PolygonLoop(point, polygon, 2, FALSE)

isPointInPolygon(point, polygon) == PolygonLoop(point, polygon, 1, FALSE)

----------------------------------------------------------------------------
(* Schedule helper.  Times are "HH:MM" strings, compared as JavaScript     *)
(* compares strings: lexicographically by character code.  A string is     *)
(* modelled as the sequence of its character codes.                        *)

Digit(n) == 48 + n
Colon == 58 + 0

(* now.toTimeString().slice(0, 5) *)
TimeString(h, m) ==
    << Digit(h \div 10), Digit(h % 10), Colon, Digit(m \div 10), Digit(m % 10) >>

RECURSIVE StrLess(_, _)
StrLess(a, b) ==
    IF Len(b) = 0 THEN FALSE
    ELSE IF Len(a) = 0 THEN TRUE
    ELSE IF Head(a) # Head(b) THEN Head(a) < Head(b)
    ELSE StrLess(Tail(a), Tail(b))

(* Mutation of StrLeq: < in place of <= *)
StrLeq_Strict(a, b) == StrLess(a, b)

StrLeq(a, b) == a = b \/ StrLess(a, b)

Weekdays == << "monday", "tuesday", "wednesday", "thursday", "friday",
               "saturday", "sunday" >>

(* The run starts on a Monday at 23:52 *)
StartMinute == 23 * 60 + 52

MinuteAt(t) == StartMinute + t \div 60000

(* now.toLocaleDateString('en-US', { weekday: 'long' }).toLowerCase() *)
DayAt(t) == Weekdays[((MinuteAt(t) \div 1440) % 7) + 1]

TimeAt(t) == TimeString((MinuteAt(t) % 1440) \div 60, MinuteAt(t) % 60)

(* Mutation of ScheduleHolds: the time window is not tested *)
ScheduleHolds_DayOnly(schedule, day, time) == day \in schedule.days

ScheduleHolds(schedule, day, time) ==
    IF day \notin schedule.days THEN FALSE
    ELSE IF StrLeq(schedule.startTime, schedule.endTime)
         THEN StrLeq(schedule.startTime, time) /\ StrLeq(time, schedule.endTime)
         ELSE StrLeq(schedule.startTime, time) \/ StrLeq(time, schedule.endTime)

isGeofenceActiveAt(schedule, t) ==
    IF ~IsSome(schedule) \/ ~Get(schedule).enabled THEN TRUE
    ELSE ScheduleHolds(Get(schedule), DayAt(t), TimeAt(t))

isGeofenceActiveNow(schedule) == isGeofenceActiveAt(schedule, now)

----------------------------------------------------------------------------
(* Arguments of createGeofence and updateGeofence the model draws from *)

Rule(userId, onEntry, onExit, customMessage, priority) ==
    [ userId |-> userId, alertOnEntry |-> onEntry, alertOnExit |-> onExit,
      customMessage |-> customMessage, priority |-> priority ]

MondayNight ==
    [ enabled |-> TRUE, startTime |-> TimeString(23, 55),
      endTime |-> TimeString(23, 59), days |-> { "monday" } ]

Triangle == << Point(0, 0), Point(4, 0), Point(0, 4) >>

SafeCircle ==
    [ name |-> "camp", type |-> "safe_zone", shape |-> "circle",
      center |-> Some(PIn), radius |-> Some(100), coordinates |-> None,
      alertOnEntry |-> TRUE, alertOnExit |-> FALSE,
      schedule |-> None, userRules |-> None ]

RestrictedPolygon ==
    [ name |-> "quarry", type |-> "restricted_zone", shape |-> "polygon",
      center |-> None, radius |-> None, coordinates |-> Some(Triangle),
      alertOnEntry |-> FALSE, alertOnExit |-> FALSE,
      schedule |-> None,
      userRules |-> Some(<< Rule("u2", TRUE, TRUE, Some("keep out"), Some("high")) >>) ]

ScheduledZone ==
    [ name |-> "depot", type |-> "alert_zone", shape |-> "circle",
      center |-> Some(PIn), radius |-> Some(100), coordinates |-> None,
      alertOnEntry |-> FALSE, alertOnExit |-> TRUE,
      schedule |-> Some(MondayNight),
      userRules |-> Some(<< Rule("u1", TRUE, FALSE, None, Some("critical")) >>) ]

GeofenceArgs == { SafeCircle, RestrictedPolygon, ScheduledZone }

----------------------------------------------------------------------------
(* Queries *)

SeqIndexes(s) == 1 .. Len(s)

(* The first element of table s, in creation order, that satisfies P *)
First(s, P(_)) ==
    LET hits == { i \in SeqIndexes(s) : P(s[i]) }
    IN  IF hits = {} THEN None
        ELSE Some(s[CHOOSE i \in hits : \A k \in hits : i <= k])

(* The last element of table s, in creation order: .order("desc").first() *)
Last(s, P(_)) ==
    LET hits == { i \in SeqIndexes(s) : P(s[i]) }
    IN  IF hits = {} THEN None
        ELSE Some(s[CHOOSE i \in hits : \A k \in hits : i >= k])

(* participants by_session filtered on userId, .first() *)
Participant(sessionId, userId) ==
    LET Match(p) == p.sessionId = sessionId /\ p.userId = userId
    IN  First(participants, Match)

(* Mutation of LatestLocationIndex: the index by_user, which yields the    *)
(* newest sample of the user in any session                                *)
LatestLocationIndex_AnySession(userId, sessionId) ==
    LET hits == { i \in SeqIndexes(locations) : locations[i].userId = userId }
    IN  IF hits = {} THEN None
        ELSE Some(CHOOSE i \in hits : \A k \in hits : i >= k)

(* locations by_user_session, .order("desc").first() *)
LatestLocationIndex(userId, sessionId) ==
    LET hits == { i \in SeqIndexes(locations) :
                    locations[i].userId = userId /\ locations[i].sessionId = sessionId }
    IN  IF hits = {} THEN None
        ELSE Some(CHOOSE i \in hits : \A k \in hits : i >= k)

(* Mutation of LastEvent: the query without .order("desc"), which yields   *)
(* the oldest matching event                                               *)
LastEvent_Oldest(evs, userId, geofenceId, eventType) ==
    LET Match(e) == /\ e.userId = userId
                    /\ e.geofenceId = geofenceId
                    /\ e.eventType = eventType
    IN  First(evs, Match)

(* Mutation of LastEvent: the index by_geofence in place of                *)
(* by_user_geofence, which yields the newest event of any user             *)
LastEvent_AnyUser(evs, userId, geofenceId, eventType) ==
    LET Match(e) == e.geofenceId = geofenceId /\ e.eventType = eventType
    IN  Last(evs, Match)

(* geofenceEvents by_user_geofence filtered on eventType,                  *)
(* .order("desc").first(), over the events table evs                       *)
LastEvent(evs, userId, geofenceId, eventType) ==
    LET Match(e) == /\ e.userId = userId
                    /\ e.geofenceId = geofenceId
                    /\ e.eventType = eventType
    IN  Last(evs, Match)

(* Mutation of FindRule: the first rule of the list, whoever it is for *)
FindRule_AnyUser(geofence, userId) ==
    IF ~IsSome(geofence.userRules) \/ Len(Get(geofence.userRules)) = 0 THEN None
    ELSE Some(Get(geofence.userRules)[1])

(* geofence.userRules?.find(rule => rule.userId === userId) *)
FindRule(geofence, userId) ==
    IF ~IsSome(geofence.userRules) THEN None
    ELSE LET Match(r) == r.userId = userId
         IN  First(Get(geofence.userRules), Match)

----------------------------------------------------------------------------
(* checkGeofenceEvents *)

(* JavaScript truthiness of an optional number *)
Truthy(n) == IsSome(n) /\ Get(n) # 0

Contains(geofence, point) ==
    IF geofence.shape = "circle" /\ IsSome(geofence.center) /\ Truthy(geofence.radius)
    THEN isPointInCircle(point, Get(geofence.center), Get(geofence.radius))
    ELSE IF geofence.shape = "polygon" /\ IsSome(geofence.coordinates)
    THEN isPointInPolygon(point, Get(geofence.coordinates))
    ELSE FALSE

isCurrentlyInside(geofence, args) == Contains(geofence, args.location)

(* Mutation of wasInside: a missing previous sample counts as inside *)
wasInside_MissingInside(geofence, args) ==
    ~IsSome(args.previousLocation) \/ Contains(geofence, Get(args.previousLocation))

(* Mutation of wasInside: the previous sample is not looked at *)
wasInside_Never(geofence, args) == FALSE

wasInside(geofence, args) ==
    IsSome(args.previousLocation) /\ Contains(geofence, Get(args.previousLocation))

shouldAlertOnEntry(geofence, userId) ==
    \/ geofence.alertOnEntry
    \/ LET rule == FindRule(geofence, userId)
       IN  IsSome(rule) /\ Get(rule).alertOnEntry

shouldAlertOnExit(geofence, userId) ==
    \/ geofence.alertOnExit
    \/ LET rule == FindRule(geofence, userId)
       IN  IsSome(rule) /\ Get(rule).alertOnExit

Event(args, geofenceId, eventType, alertSent, metadata) ==
    [ sessionId |-> args.sessionId, geofenceId |-> geofenceId,
      userId |-> args.userId, eventType |-> eventType, timestamp |-> now,
      location |-> args.location, alertSent |-> alertSent,
      acknowledged |-> FALSE, acknowledgedBy |-> None, acknowledgedAt |-> None,
      metadata |-> metadata ]

AlertJob(eventId, geofenceId, userId, eventType) ==
    [ eventId |-> eventId, geofenceId |-> geofenceId, userId |-> userId,
      eventType |-> eventType ]

(* Mutation of Record: the dispatch is scheduled whatever shouldAlert is *)
Record_AlwaysDispatch(st, event, alert) ==
    [ events |-> Append(st.events, event),
      jobs |-> st.jobs \cup { [ eventId |-> Len(st.events) + 1,
                                geofenceId |-> event.geofenceId,
                                userId |-> event.userId,
                                eventType |-> event.eventType ] } ]

(* ctx.db.insert("geofenceEvents", ...) followed, when alert holds, by     *)
(* ctx.scheduler.runAfter(0, createGeofenceAlert, ...); st is the events   *)
(* table and the scheduler as the call has left them so far                *)
Record(st, event, alert) ==
    [ events |-> Append(st.events, event),
      jobs |-> IF alert
               THEN st.jobs \cup { AlertJob(Len(st.events) + 1, event.geofenceId,
                                            event.userId, event.eventType) }
               ELSE st.jobs ]

(* Mutation of ExitDuration: 0 in place of undefined without an entry *)
ExitDuration_Zero(lastEntry) ==
    IF IsSome(lastEntry) THEN Some(now - Get(lastEntry).timestamp) ELSE Some(0)

(* const duration = lastEntry ? Date.now() - lastEntry.timestamp : undefined *)
ExitDuration(lastEntry) ==
    IF IsSome(lastEntry) THEN Some(now - Get(lastEntry).timestamp) ELSE None

(* Mutation of EntryExit: a transition that does not alert is not         *)
(* recorded                                                                *)
EntryExit_OnlyAlerting(st, id, geofence, args) ==
    IF /\ isCurrentlyInside(geofence, args) /\ ~wasInside(geofence, args)
       /\ shouldAlertOnEntry(geofence, args.userId)
    THEN Record(st, Event(args, id, "entry", TRUE, None), TRUE)
    ELSE IF /\ ~isCurrentlyInside(geofence, args) /\ wasInside(geofence, args)
            /\ shouldAlertOnExit(geofence, args.userId)
    THEN LET lastEntry == LastEvent(st.events, args.userId, id, "entry")
             duration == ExitDuration(lastEntry)
         IN  Record(st, Event(args, id, "exit", TRUE,
                              Some([ duration |-> duration ])), TRUE)
    ELSE st

(* Check for entry/exit events *)
EntryExit(st, id, geofence, args) ==
    IF isCurrentlyInside(geofence, args) /\ ~wasInside(geofence, args)
    THEN LET shouldAlert == shouldAlertOnEntry(geofence, args.userId)
         IN  Record(st, Event(args, id, "entry", shouldAlert, None), shouldAlert)
    ELSE IF ~isCurrentlyInside(geofence, args) /\ wasInside(geofence, args)
    THEN LET shouldAlert == shouldAlertOnExit(geofence, args.userId)
             lastEntry == LastEvent(st.events, args.userId, id, "entry")
             duration == ExitDuration(lastEntry)
         IN  Record(st, Event(args, id, "exit", shouldAlert,
                              Some([ duration |-> duration ])), shouldAlert)
    ELSE st

(* Mutation of NoRecentViolation: >= in place of > *)
NoRecentViolation_Inclusive(recentViolation) ==
    ~IsSome(recentViolation) \/ now - Get(recentViolation).timestamp >= Cooldown

(* Only create violation if no recent one (within 5 minutes) *)
NoRecentViolation(recentViolation) ==
    ~IsSome(recentViolation) \/ now - Get(recentViolation).timestamp > Cooldown

(* Mutation of Violation: the check sits in the else branch of the       *)
(* entry/exit test, so it is skipped in a call that records an entry       *)
Violation_ElseBranch(st, id, geofence, args) ==
    IF isCurrentlyInside(geofence, args) /\ ~wasInside(geofence, args) THEN st
    ELSE IF isCurrentlyInside(geofence, args) /\ geofence.type = "restricted_zone"
    THEN LET recentViolation == LastEvent(st.events, args.userId, id, "violation")
         IN  IF NoRecentViolation(recentViolation)
             THEN Record(st, Event(args, id, "violation", TRUE, None), TRUE)
             ELSE st
    ELSE st

(* Mutation of Violation: the test looks at the previous sample, so a      *)
(* user who has just left a restricted zone gets a violation               *)
Violation_WasInside(st, id, geofence, args) ==
    IF wasInside(geofence, args) /\ geofence.type = "restricted_zone"
    THEN LET recentViolation == LastEvent(st.events, args.userId, id, "violation")
         IN  IF NoRecentViolation(recentViolation)
             THEN Record(st, Event(args, id, "violation", TRUE, None), TRUE)
             ELSE st
    ELSE st

(* Check for violations (being in restricted zones) *)
Violation(st, id, geofence, args) ==
    IF isCurrentlyInside(geofence, args) /\ geofence.type = "restricted_zone"
    THEN LET recentViolation == LastEvent(st.events, args.userId, id, "violation")
         IN  IF NoRecentViolation(recentViolation)
             THEN Record(st, Event(args, id, "violation", TRUE, None), TRUE)
             ELSE st
    ELSE st

(* Mutation of IsActiveGeofence: the query without its filter on active *)
IsActiveGeofence_Inactive(id, sessionId) ==
    /\ IsSome(geofences[id])
    /\ Get(geofences[id]).sessionId = sessionId
    /\ isGeofenceActiveNow(Get(geofences[id]).schedule)

(* The geofences the query returns and the schedule filter keeps *)
IsActiveGeofence(id, sessionId) ==
    /\ IsSome(geofences[id])
    /\ Get(geofences[id]).sessionId = sessionId
    /\ Get(geofences[id]).active
    /\ isGeofenceActiveNow(Get(geofences[id]).schedule)

(* for (const geofence of activeGeofences), from geofence id on *)
RECURSIVE GeofenceLoop(_, _, _)
GeofenceLoop(st, id, args) ==
    IF id > Len(geofences) THEN st
    ELSE IF ~IsActiveGeofence(id, args.sessionId) THEN GeofenceLoop(st, id + 1, args)
    ELSE LET geofence == Get(geofences[id])
             afterEntryExit == EntryExit(st, id, geofence, args)
         IN  GeofenceLoop(Violation(afterEntryExit, id, geofence, args), id + 1, args)

(* The handler of checkGeofenceEvents: the events table and the alert      *)
(* dispatches it leaves                                                    *)
CheckResult(args) ==
    GeofenceLoop([ events |-> geofenceEvents, jobs |-> scheduledAlerts ], 1, args)

----------------------------------------------------------------------------
(* createGeofenceAlert *)

(* users table: every user has a name *)
UserName(userId) == userId

(* Mutation of getAlertMessage: the custom message is not looked at *)
getAlertMessage_TemplateOnly(customMessage, eventType, userName, geofenceName) ==
    IF eventType = "entry" THEN << userName, " entered ", geofenceName >>
    ELSE IF eventType = "exit" THEN << userName, " exited ", geofenceName >>
    ELSE << "VIOLATION: ", userName, " is in restricted zone ", geofenceName >>

getAlertMessage(customMessage, eventType, userName, geofenceName) ==
    IF IsSome(customMessage) /\ Get(customMessage) # "" THEN << Get(customMessage) >>
    ELSE IF eventType = "entry" THEN << userName, " entered ", geofenceName >>
    ELSE IF eventType = "exit" THEN << userName, " exited ", geofenceName >>
    ELSE << "VIOLATION: ", userName, " is in restricted zone ", geofenceName >>

(* args.eventType.charAt(0).toUpperCase() + args.eventType.slice(1) *)
Capitalized(eventType) ==
    IF eventType = "entry" THEN "Entry"
    ELSE IF eventType = "exit" THEN "Exit" ELSE "Violation"

(* Mutation of NotifyLoop: the triggering user is notified as well *)
RECURSIVE NotifyLoop_Everyone(_, _, _, _, _, _)
NotifyLoop_Everyone(table, i, sessionId, job, message, alertId) ==
    IF i > Len(participants) THEN table
    ELSE IF participants[i].sessionId = sessionId
    THEN NotifyLoop_Everyone(Append(table,
                           [ userId |-> participants[i].userId,
                             sessionId |-> sessionId,
                             type |-> "geofence_alert",
                             title |-> << "Geofence ", Capitalized(job.eventType) >>,
                             message |-> message,
                             read |-> FALSE,
                             data |-> [ alertId |-> alertId,
                                        geofenceEventId |-> job.eventId,
                                        sessionId |-> sessionId ] ]),
                    i + 1, sessionId, job, message, alertId)
    ELSE NotifyLoop_Everyone(table, i + 1, sessionId, job, message, alertId)

(* for (const participant of participants): one notification for every    *)
(* participant of the session but the triggering user, from index i on     *)
RECURSIVE NotifyLoop(_, _, _, _, _, _)
NotifyLoop(table, i, sessionId, job, message, alertId) ==
    IF i > Len(participants) THEN table
    ELSE IF participants[i].sessionId = sessionId /\ participants[i].userId # job.userId
    THEN NotifyLoop(Append(table,
                           [ userId |-> participants[i].userId,
                             sessionId |-> sessionId,
                             type |-> "geofence_alert",
                             title |-> << "Geofence ", Capitalized(job.eventType) >>,
                             message |-> message,
                             read |-> FALSE,
                             data |-> [ alertId |-> alertId,
                                        geofenceEventId |-> job.eventId,
                                        sessionId |-> sessionId ] ]),
                    i + 1, sessionId, job, message, alertId)
    ELSE NotifyLoop(table, i + 1, sessionId, job, message, alertId)

(* if (!geofence || !user || !event) return; *)
DispatchTargetsExist(job) ==
    /\ IsSome(geofences[job.geofenceId])
    /\ job.userId \in Users
    /\ job.eventId \in SeqIndexes(geofenceEvents)

createGeofenceAlert(job) ==
    /\ job \in scheduledAlerts
    /\ scheduledAlerts' = scheduledAlerts \ { job }
    /\ IF ~DispatchTargetsExist(job)
       THEN UNCHANGED << alerts, messages, notifications >>
       ELSE LET geofence == Get(geofences[job.geofenceId])
                event == geofenceEvents[job.eventId]
                userRule == FindRule(geofence, job.userId)
                customMessage == IF IsSome(userRule) THEN Get(userRule).customMessage
                                 ELSE None
                priority == IF IsSome(userRule) /\ IsSome(Get(userRule).priority)
                            THEN Get(Get(userRule).priority) ELSE "medium"
                message == getAlertMessage(customMessage, job.eventType,
                                           UserName(job.userId), geofence.name)
                alertId == Len(alerts) + 1
            IN  /\ alerts' = Append(alerts,
                        [ sessionId |-> geofence.sessionId,
                          createdBy |-> job.userId,
                          type |-> IF job.eventType = "violation"
                                   THEN "emergency" ELSE "geofence",
                          message |-> message,
                          acknowledged |-> << >>,
                          location |-> event.location,
                          priority |-> priority ])
                /\ messages' = Append(messages,
                        [ sessionId |-> geofence.sessionId,
                          userId |-> job.userId,
                          content |-> message,
                          type |-> "system",
                          metadata |-> [ alertId |-> alertId,
                                         geofenceEventId |-> job.eventId ] ])
                /\ notifications' = NotifyLoop(notifications, 1, geofence.sessionId,
                                               job, message, alertId)
    /\ UNCHANGED << now, sessions, participants, geofences, locations, geofenceEvents,
                    scheduledChecks, accepted,
                    handed, failedAlerts, call, returned >>

(* The writes of createGeofenceAlert, in the order of the handler *)
DispatchWrites == { "alert", "message", "notification" }

(* Mutation of ReachesWrite: the handler without its early return, which   *)
(* goes on to read the fields of a geofence that is not there              *)
ReachesWrite_NoReturn(job, write) == TRUE

(* The handler reaches the write: the notification loop inserts only for   *)
(* a participant of the session other than the triggering user             *)
ReachesWrite(job, write) ==
    /\ DispatchTargetsExist(job)
    /\ write = "notification"
         => \E i \in SeqIndexes(participants) :
                /\ participants[i].sessionId = Get(geofences[job.geofenceId]).sessionId
                /\ participants[i].userId # job.userId

(* Mutation of createGeofenceAlertThrows: the dispatch runs inside the     *)
(* transaction of the check that recorded the event, which is rolled back  *)
(* with it                                                                 *)
createGeofenceAlertThrows_InsideCheck(job, write) ==
    /\ job \in scheduledAlerts
    /\ ReachesWrite(job, write)
    /\ scheduledAlerts' = scheduledAlerts \ { job }
    /\ failedAlerts' = failedAlerts \cup { [ job |-> job, write |-> write ] }
    /\ geofenceEvents' = SubSeq(geofenceEvents, 1, job.eventId - 1)
    /\ UNCHANGED << now, sessions, participants, geofences, locations, alerts, messages,
                    notifications, scheduledChecks, accepted, handed, call,
                    returned >>

(* createGeofenceAlert when ctx.db.insert of one of its writes throws: the *)
(* handler has no try/catch, so the exception leaves the handler and the   *)
(* transaction is rolled back with the writes made before; the scheduler   *)
(* marks the call failed and does not run it again                         *)
createGeofenceAlertThrows(job, write) ==
    /\ job \in scheduledAlerts
    /\ ReachesWrite(job, write)
    /\ scheduledAlerts' = scheduledAlerts \ { job }
    /\ failedAlerts' = failedAlerts \cup { [ job |-> job, write |-> write ] }
    /\ UNCHANGED << now, sessions, participants, geofences, locations, geofenceEvents,
                    alerts, messages, notifications, scheduledChecks, accepted,
                    handed, call, returned >>

----------------------------------------------------------------------------
(* The scheduler runs a pending checkGeofenceEvents call *)

checkGeofenceEvents(job) ==
    /\ job \in scheduledChecks
    /\ scheduledChecks' = scheduledChecks \ { job }
    /\ geofenceEvents' = CheckResult(job).events
    /\ scheduledAlerts' = CheckResult(job).jobs
    /\ UNCHANGED << now, sessions, participants, geofences, locations, alerts, messages,
                    notifications, accepted,
                    handed, failedAlerts, call, returned >>

----------------------------------------------------------------------------
(* updateLocation (convex/alerts.ts) *)

CheckArgs(seq, sessionId, userId, location, previousLocation) ==
    [ seq |-> seq, sessionId |-> sessionId, userId |-> userId,
      location |-> location, previousLocation |-> previousLocation ]

LocationRow(sessionId, userId, location) ==
    [ sessionId |-> sessionId, userId |-> userId, location |-> location ]

(* Mutation of updateLocation: the sample is stored and no check is        *)
(* scheduled for it                                                        *)
updateLocation_NoCheck(caller, sessionId, location) ==
    IF caller = NoUser \/ ~IsSome(Participant(sessionId, caller))
    THEN UNCHANGED vars
    ELSE LET latest == LatestLocationIndex(caller, sessionId)
             previousLocation == IF IsSome(latest)
                                 THEN Some(locations[Get(latest)].location)
                                 ELSE None
             args == CheckArgs(accepted + 1, sessionId, caller, location,
                               previousLocation)
         IN  /\ accepted' = accepted + 1
             /\ handed' = Append(handed, args)
             /\ locations' = Append(locations, LocationRow(sessionId, caller, location))
             /\ UNCHANGED << now, sessions, participants, geofences, geofenceEvents, alerts,
                             messages, notifications, scheduledChecks,
                             scheduledAlerts, failedAlerts, call, returned >>

updateLocation(caller, sessionId, location) ==
    IF caller = NoUser \/ ~IsSome(Participant(sessionId, caller))
    THEN UNCHANGED vars                     \* throws: nothing is committed
    ELSE LET latest == LatestLocationIndex(caller, sessionId)
             previousLocation == IF IsSome(latest)
                                 THEN Some(locations[Get(latest)].location)
                                 ELSE None
             args == CheckArgs(accepted + 1, sessionId, caller, location,
                               previousLocation)
         IN  /\ accepted' = accepted + 1
             /\ handed' = Append(handed, args)
             /\ locations' = Append(locations, LocationRow(sessionId, caller, location))
             /\ scheduledChecks' = scheduledChecks \cup { args }
             /\ UNCHANGED << now, sessions, participants, geofences, geofenceEvents, alerts,
                             messages, notifications, scheduledAlerts,
                             failedAlerts, call, returned >>

----------------------------------------------------------------------------
(* updateExternalLocation (convex/api.ts) *)

(* table "apiKeys": a key of s1 that may write locations, and one that may *)
(* only read them                                                          *)
ApiKeys ==
    { [ key |-> "k1", sessionId |-> "s1", active |-> TRUE,
        permissions |-> { "write:locations" } ],
      [ key |-> "k2", sessionId |-> "s1", active |-> TRUE,
        permissions |-> { "read:locations" } ] }

(* apiKeys by_key filtered on active, .unique() *)
ApiKeyRecord(apiKey) ==
    LET hits == { r \in ApiKeys : r.key = apiKey /\ r.active }
    IN  IF hits = {} THEN None ELSE Some(CHOOSE r \in hits : TRUE)

(* The handler patches the newest location row of the pair, or inserts the *)
(* first one, and runs checkGeofenceEvents inside its own transaction      *)
updateExternalLocation(apiKey, sessionId, userId, location) ==
    IF \/ ~IsSome(ApiKeyRecord(apiKey))
       \/ Get(ApiKeyRecord(apiKey)).sessionId # sessionId
       \/ "write:locations" \notin Get(ApiKeyRecord(apiKey)).permissions
       \/ ~IsSome(Participant(sessionId, userId))
    THEN UNCHANGED vars                     \* throws: nothing is committed
    ELSE LET existingLocation == LatestLocationIndex(userId, sessionId)
             previousLocation == IF IsSome(existingLocation)
                                 THEN Some(locations[Get(existingLocation)].location)
                                 ELSE None
             args == CheckArgs(accepted + 1, sessionId, userId, location,
                               previousLocation)
         IN  /\ accepted' = accepted + 1
             /\ handed' = Append(handed, args)
             /\ locations' =
                    IF IsSome(existingLocation)
                    THEN [ locations EXCEPT ![Get(existingLocation)].location = location ]
                    ELSE Append(locations, LocationRow(sessionId, userId, location))
             /\ geofenceEvents' = CheckResult(args).events
             /\ scheduledAlerts' = CheckResult(args).jobs
             /\ UNCHANGED << now, sessions, participants, geofences, alerts, messages,
                             notifications, scheduledChecks, failedAlerts, call,
                             returned >>

----------------------------------------------------------------------------
(* Geofence administration *)

Geofence(sessionId, createdBy, a) ==
    [ sessionId |-> sessionId, name |-> a.name, type |-> a.type,
      shape |-> a.shape, center |-> a.center, radius |-> a.radius,
      coordinates |-> a.coordinates, alertOnEntry |-> a.alertOnEntry,
      alertOnExit |-> a.alertOnExit, active |-> TRUE, createdBy |-> createdBy,
      schedule |-> a.schedule, userRules |-> a.userRules ]

createGeofence(caller, sessionId, a) ==
    IF caller = NoUser \/ ~IsSome(Participant(sessionId, caller))
    THEN UNCHANGED vars
    ELSE /\ geofences' = Append(geofences, Some(Geofence(sessionId, caller, a)))
         /\ UNCHANGED << now, sessions, participants, locations, geofenceEvents, alerts,
                         messages, notifications, scheduledChecks,
                         scheduledAlerts, accepted,
                         handed, failedAlerts, call, returned >>

MayChange(caller, geofence, sessionId) ==
    LET participant == Participant(sessionId, caller)
    IN  /\ IsSome(participant)
        /\ (geofence.createdBy = caller \/ Get(participant).role = "Admin")

updateGeofence(caller, geofenceId, sessionId, a) ==
    IF \/ caller = NoUser
       \/ ~IsSome(geofences[geofenceId])
       \/ ~MayChange(caller, Get(geofences[geofenceId]), sessionId)
    THEN UNCHANGED vars
    ELSE LET old == Get(geofences[geofenceId])
         IN  /\ geofences' = [ geofences EXCEPT ![geofenceId] =
                    Some([ Geofence(old.sessionId, old.createdBy, a)
                           EXCEPT !.active = old.active ]) ]
             /\ UNCHANGED << now, sessions, participants, locations, geofenceEvents, alerts,
                             messages, notifications, scheduledChecks,
                             scheduledAlerts, accepted,
                             handed, failedAlerts, call, returned >>

(* Mutation of deleteGeofence: the events of the geofence are deleted with *)
(* it                                                                      *)
deleteGeofence_Cascade(caller, geofenceId) ==
    IF \/ caller = NoUser
       \/ ~IsSome(geofences[geofenceId])
       \/ ~MayChange(caller, Get(geofences[geofenceId]),
                     Get(geofences[geofenceId]).sessionId)
    THEN UNCHANGED vars
    ELSE LET Other(e) == e.geofenceId # geofenceId
         IN  /\ geofences' = [ geofences EXCEPT ![geofenceId] = None ]
             /\ geofenceEvents' = SelectSeq(geofenceEvents, Other)
             /\ UNCHANGED << now, sessions, participants, locations, alerts, messages,
                             notifications, scheduledChecks, scheduledAlerts,
                             accepted, handed, failedAlerts, call, returned >>

deleteGeofence(caller, geofenceId) ==
    IF \/ caller = NoUser
       \/ ~IsSome(geofences[geofenceId])
       \/ ~MayChange(caller, Get(geofences[geofenceId]),
                     Get(geofences[geofenceId]).sessionId)
    THEN UNCHANGED vars
    ELSE /\ geofences' = [ geofences EXCEPT ![geofenceId] = None ]
         /\ UNCHANGED << now, sessions, participants, locations, geofenceEvents, alerts,
                         messages, notifications, scheduledChecks,
                         scheduledAlerts, accepted,
                         handed, failedAlerts, call, returned >>

(* The updates of bulkUpdateGeofences the model draws from: each of the    *)
(* three fields is optional                                                *)
BulkUpdates ==
    { [ active |-> Some(FALSE), alertOnEntry |-> None, alertOnExit |-> None ],
      [ active |-> Some(TRUE), alertOnEntry |-> Some(TRUE), alertOnExit |-> None ] }

(* ctx.db.patch(geofenceId, args.updates) *)
Patched(geofence, updates) ==
    [ geofence EXCEPT
        !.active = IF IsSome(updates.active) THEN Get(updates.active) ELSE @,
        !.alertOnEntry = IF IsSome(updates.alertOnEntry)
                         THEN Get(updates.alertOnEntry) ELSE @,
        !.alertOnExit = IF IsSome(updates.alertOnExit)
                        THEN Get(updates.alertOnExit) ELSE @ ]

bulkUpdateGeofences(caller, sessionId, geofenceIds, updates) ==
    IF \/ caller = NoUser
       \/ ~IsSome(Participant(sessionId, caller))
       \/ Get(Participant(sessionId, caller)).role # "Admin"
    THEN UNCHANGED vars
    ELSE /\ geofences' =
                [ id \in SeqIndexes(geofences) |->
                    IF /\ id \in geofenceIds
                       /\ IsSome(geofences[id])
                       /\ Get(geofences[id]).sessionId = sessionId
                    THEN Some(Patched(Get(geofences[id]), updates))
                    ELSE geofences[id] ]
         /\ UNCHANGED << now, sessions, participants, locations, geofenceEvents, alerts,
                         messages, notifications, scheduledChecks,
                         scheduledAlerts, accepted, handed, failedAlerts, call,
                         returned >>

acknowledgeGeofenceEvent(caller, eventId) ==
    IF \/ caller = NoUser
       \/ eventId \notin SeqIndexes(geofenceEvents)
       \/ ~IsSome(Participant(geofenceEvents[eventId].sessionId, caller))
    THEN UNCHANGED vars
    ELSE /\ geofenceEvents' =
                [ geofenceEvents EXCEPT ![eventId].acknowledged = TRUE,
                                        ![eventId].acknowledgedBy = Some(caller),
                                        ![eventId].acknowledgedAt = Some(now) ]
         /\ UNCHANGED << now, sessions, participants, geofences, locations, alerts,
                         messages, notifications, scheduledChecks,
                         scheduledAlerts, accepted, handed, failedAlerts, call,
                         returned >>

----------------------------------------------------------------------------
(* The clock *)

Tick ==
    /\ now' = now + TickMs
    /\ UNCHANGED << sessions, participants, geofences, locations, geofenceEvents, alerts,
                    messages, notifications, scheduledChecks, scheduledAlerts,
                    accepted,
                    handed, failedAlerts, call, returned >>

----------------------------------------------------------------------------
(* Two sessions: s1 created by u1 and joined by u2, s2 created by u3 *)

Init ==
    /\ now = 0
    /\ sessions = SessionsTable
    /\ participants = << [ sessionId |-> "s1", userId |-> "u1", role |-> "Admin" ],
                         [ sessionId |-> "s1", userId |-> "u2", role |-> "Member" ],
                         [ sessionId |-> "s2", userId |-> "u3", role |-> "Admin" ] >>
    /\ geofences = << >>
    /\ locations = << >>
    /\ geofenceEvents = << >>
    /\ alerts = << >>
    /\ messages = << >>
    /\ notifications = << >>
    /\ scheduledChecks = {}
    /\ scheduledAlerts = {}
    /\ accepted = 0
    /\ handed = << >>
    /\ failedAlerts = {}
    /\ call = None
    /\ returned = None

Callers == Users \cup { NoUser }

(* The members whose clients report locations, and a caller who is no      *)
(* member                                                                  *)
Reporters == { "u1", "u3", NoUser }

(* The sessions whose members report locations *)
TrackedSessions == { "s1" }

ClockStep == now < MaxTicks * TickMs /\ Tick

Scheduler ==
    \/ \E job \in scheduledChecks : checkGeofenceEvents(job)
    \/ \E job \in scheduledAlerts : createGeofenceAlert(job)

Next ==
    \/ ClockStep
    \/ Scheduler
    \/ /\ accepted + Len(geofences) < MaxCalls
       /\ \E caller \in Reporters, sessionId \in TrackedSessions,
             location \in SampleLocations :
            updateLocation(caller, sessionId, location)
    \/ /\ accepted + Len(geofences) < MaxCalls
       /\ \E caller \in Callers, sessionId \in Sessions, a \in GeofenceArgs :
            createGeofence(caller, sessionId, a)
    \/ \E caller \in Callers, geofenceId \in SeqIndexes(geofences),
          sessionId \in Sessions, a \in GeofenceArgs :
         updateGeofence(caller, geofenceId, sessionId, a)
    \/ \E caller \in Callers, geofenceId \in SeqIndexes(geofences) :
         deleteGeofence(caller, geofenceId)

Spec == Init /\ [][Next]_vars

----------------------------------------------------------------------------
(* Location tracking against a geofence that u1 has created in s1 and      *)
(* that is left alone                                                      *)

InitTracking ==
    /\ now = 0
    /\ sessions = SessionsTable
    /\ participants = << [ sessionId |-> "s1", userId |-> "u1", role |-> "Admin" ],
                         [ sessionId |-> "s1", userId |-> "u2", role |-> "Member" ],
                         [ sessionId |-> "s2", userId |-> "u3", role |-> "Admin" ] >>
    /\ \E a \in GeofenceArgs : geofences = << Some(Geofence("s1", "u1", a)) >>
    /\ locations = << >>
    /\ geofenceEvents = << >>
    /\ alerts = << >>
    /\ messages = << >>
    /\ notifications = << >>
    /\ scheduledChecks = {}
    /\ scheduledAlerts = {}
    /\ accepted = 0
    /\ handed = << >>
    /\ failedAlerts = {}
    /\ call = None
    /\ returned = None

NextTracking ==
    \/ ClockStep
    \/ Scheduler
    \/ /\ accepted < MaxSamples
       /\ \E caller \in Reporters, sessionId \in TrackedSessions,
             location \in SampleLocations :
            updateLocation(caller, sessionId, location)

SpecTracking == InitTracking /\ [][NextTracking]_vars

----------------------------------------------------------------------------
(* Every operation that touches geofences and their events, within one     *)
(* clock step and from a state in which u1 has created a safe zone in s1:  *)
(* tracking, administration with bulk updates, and acknowledgements        *)

(* The admin u1 and the member u2 of s1, and a caller who is not signed in *)
LifecycleCallers == { "u1", "u2", NoUser }

(* updateGeofence and createGeofence turn or add a restricted zone *)
LifecycleArgs == { RestrictedPolygon }

(* The member u2 of s1 acknowledges, and a caller who is not signed in *)
Acknowledgers == { "u2", NoUser }

NextLifecycle ==
    \/ Scheduler
    \/ /\ accepted + Len(geofences) <= MaxLifecycleCalls
       /\ \E caller \in Reporters, sessionId \in TrackedSessions,
             location \in SampleLocations :
            updateLocation(caller, sessionId, location)
    \/ /\ accepted + Len(geofences) <= MaxLifecycleCalls
       /\ \E caller \in LifecycleCallers, sessionId \in Sessions,
             a \in LifecycleArgs :
            createGeofence(caller, sessionId, a)
    \/ \E caller \in LifecycleCallers, geofenceId \in SeqIndexes(geofences),
          sessionId \in Sessions, a \in LifecycleArgs :
         updateGeofence(caller, geofenceId, sessionId, a)
    \/ \E caller \in LifecycleCallers, geofenceId \in SeqIndexes(geofences) :
         deleteGeofence(caller, geofenceId)
    \/ \E caller \in LifecycleCallers \ { NoUser }, sessionId \in Sessions,
          geofenceIds \in SUBSET SeqIndexes(geofences), updates \in BulkUpdates :
         bulkUpdateGeofences(caller, sessionId, geofenceIds, updates)
    \/ \E caller \in Acknowledgers, eventId \in 1 .. Len(geofenceEvents) + 1 :
         acknowledgeGeofenceEvent(caller, eventId)

InitLifecycle ==
    /\ InitTracking
    /\ geofences = << Some(Geofence("s1", "u1", SafeCircle)) >>

SpecLifecycle == InitLifecycle /\ [][NextLifecycle]_vars

----------------------------------------------------------------------------
(* Location tracking of several (session, user) pairs: u1 and u2 in s1,   *)
(* u3 in s2, each session with a geofence that is left alone               *)

InitPairs ==
    /\ now = 0
    /\ sessions = SessionsTable
    /\ participants = << [ sessionId |-> "s1", userId |-> "u1", role |-> "Admin" ],
                         [ sessionId |-> "s1", userId |-> "u2", role |-> "Member" ],
                         [ sessionId |-> "s2", userId |-> "u3", role |-> "Admin" ] >>
    /\ \E a \in GeofenceArgs :
          geofences = << Some(Geofence("s1", "u1", a)),
                         Some(Geofence("s2", "u3", RestrictedPolygon)) >>
    /\ locations = << >>
    /\ geofenceEvents = << >>
    /\ alerts = << >>
    /\ messages = << >>
    /\ notifications = << >>
    /\ scheduledChecks = {}
    /\ scheduledAlerts = {}
    /\ accepted = 0
    /\ handed = << >>
    /\ failedAlerts = {}
    /\ call = None
    /\ returned = None

NextPairs ==
    \/ ClockStep
    \/ Scheduler
    \/ /\ accepted < MaxPairSamples
       /\ \E caller \in Users, sessionId \in Sessions, location \in SampleLocations :
            updateLocation(caller, sessionId, location)

SpecPairs == InitPairs /\ [][NextPairs]_vars

----------------------------------------------------------------------------
(* The two ingestion paths mixed, within one clock step, on a storage      *)
(* whose inserts can fail: u1 is in both sessions, u2 in s1, and s1 has a  *)
(* geofence                                                                *)

InitIngest ==
    /\ now = 0
    /\ sessions = SessionsTable
    /\ participants = << [ sessionId |-> "s1", userId |-> "u1", role |-> "Admin" ],
                         [ sessionId |-> "s1", userId |-> "u2", role |-> "Member" ],
                         [ sessionId |-> "s2", userId |-> "u3", role |-> "Admin" ],
                         [ sessionId |-> "s2", userId |-> "u1", role |-> "Member" ] >>
    /\ \E a \in GeofenceArgs : geofences = << Some(Geofence("s1", "u1", a)) >>
    /\ locations = << >>
    /\ geofenceEvents = << >>
    /\ alerts = << >>
    /\ messages = << >>
    /\ notifications = << >>
    /\ scheduledChecks = {}
    /\ scheduledAlerts = {}
    /\ accepted = 0
    /\ handed = << >>
    /\ failedAlerts = {}
    /\ call = None
    /\ returned = None

IngestUsers == { "u1", "u2" }

InsertThrows ==
    \E job \in scheduledAlerts, write \in DispatchWrites :
        createGeofenceAlertThrows(job, write)

NextIngest ==
    \/ Scheduler
    \/ InsertThrows
    \/ /\ accepted < MaxIngested
       /\ \E caller \in IngestUsers, sessionId \in Sessions,
             location \in SampleLocations :
            updateLocation(caller, sessionId, location)
    \/ /\ accepted < MaxIngested
       /\ \E apiKey \in { "k1", "k2", "none" }, sessionId \in Sessions,
             userId \in IngestUsers, location \in SampleLocations :
            updateExternalLocation(apiKey, sessionId, userId, location)

SpecIngest == InitIngest /\ [][NextIngest]_vars

----------------------------------------------------------------------------
(* Calls of the helper functions on arguments of the caller's choice, on   *)
(* an empty database                                                       *)

Empty ==
    /\ sessions = << >>
    /\ participants = << >>
    /\ geofences = << >>
    /\ locations = << >>
    /\ geofenceEvents = << >>
    /\ alerts = << >>
    /\ messages = << >>
    /\ notifications = << >>
    /\ scheduledChecks = {}
    /\ scheduledAlerts = {}
    /\ accepted = 0
    /\ handed = << >>
    /\ failedAlerts = {}

database == << now, sessions, participants, geofences, locations, geofenceEvents, alerts,
              messages, notifications, scheduledChecks, scheduledAlerts,
              accepted, handed, failedAlerts >>

(* The points of a 3 x 3 grid, for the point and for the vertices *)
GridPoints == { Point(lat, lng) : lat \in 0 .. 2, lng \in 0 .. 2 }

RECURSIVE VertexLists(_)
VertexLists(n) ==
    IF n = 0 THEN { << >> }
    ELSE VertexLists(n - 1)
            \cup { Append(l, v) : l \in { k \in VertexLists(n - 1) : Len(k) = n - 1 },
                                  v \in GridPoints }

(* The vertex list with its second vertex taken as the starting vertex *)
Rotated(polygon) ==
    IF Len(polygon) = 0 THEN polygon ELSE Append(Tail(polygon), Head(polygon))

InitPolygon ==
    /\ now = 0
    /\ Empty
    /\ \E point \in GridPoints, polygon \in VertexLists(MaxVertices) :
          call = Some([ point |-> point, polygon |-> polygon, rotations |-> 0 ])
    /\ returned = None

(* isPointInPolygon(point, polygon) *)
callIsPointInPolygon ==
    /\ returned = None
    /\ returned' = Some(isPointInPolygon(Get(call).point, Get(call).polygon))
    /\ UNCHANGED << database, call >>

(* isPointInPolygon(point, polygon) once more, with the vertex list        *)
(* rotated by one vertex                                                   *)
callIsPointInPolygonRotated ==
    /\ IsSome(returned)
    /\ Get(call).rotations < Len(Get(call).polygon)
    /\ call' = Some([ point |-> Get(call).point,
                      polygon |-> Rotated(Get(call).polygon),
                      rotations |-> Get(call).rotations + 1 ])
    /\ returned' = Some(isPointInPolygon(Get(call).point,
                                         Rotated(Get(call).polygon)))
    /\ UNCHANGED database

NextPolygon == callIsPointInPolygon \/ callIsPointInPolygonRotated

SpecPolygon == InitPolygon /\ [][NextPolygon]_vars

----------------------------------------------------------------------------
(* The client's copy of the test (src/FreeLeafletMap.tsx), which the map   *)
(* runs on the device's own position, next to the backend's                *)

(* ((yi > lng) !== (yj > lng)) &&                                          *)
(* (lat < (xj - xi) * (lng - yi) / (yj - yi) + xi), with x the latitude    *)
(* and y the longitude of a vertex                                         *)
ClientCrosses(lat, lng, vi, vj) ==
    /\ (vi.lng > lng) # (vj.lng > lng)
    /\ lat < Quotient((vj.lat - vi.lat) * (lng - vi.lng), vj.lng - vi.lng) + vi.lat

RECURSIVE ClientPolygonLoop(_, _, _, _, _)
ClientPolygonLoop(lat, lng, polygon, i, inside) ==
    IF i > Len(polygon) THEN inside
    ELSE LET j == IF i = 1 THEN Len(polygon) ELSE i - 1
         IN  ClientPolygonLoop(lat, lng, polygon, i + 1,
                               IF ClientCrosses(lat, lng, polygon[i], polygon[j])
                               THEN ~inside ELSE inside)

(* isPointInPolygon(lat, lng, polygon) of FreeLeafletMap.tsx *)
FreeLeafletMapIsPointInPolygon(lat, lng, polygon) ==
    ClientPolygonLoop(lat, lng, polygon, 1, FALSE)

(* The map calls its test for polygons of 3 vertices and more *)
InitClient ==
    /\ now = 0
    /\ Empty
    /\ \E point \in GridPoints,
          polygon \in { l \in VertexLists(MaxVertices) : Len(l) >= 3 } :
          call = Some([ point |-> point, polygon |-> polygon ])
    /\ returned = None

(* The results returned so far, by the name of the side that returned them *)
Results == IF IsSome(returned) THEN Get(returned) ELSE << >>

(* the backend evaluates the point *)
callBackend ==
    /\ "backend" \notin DOMAIN Results
    /\ returned' = Some(("backend" :> isPointInPolygon(Get(call).point,
                                                       Get(call).polygon))
                        @@ Results)
    /\ UNCHANGED << database, call >>

(* the client evaluates the point *)
callClient ==
    /\ "client" \notin DOMAIN Results
    /\ returned' = Some(("client" :> FreeLeafletMapIsPointInPolygon(
                                         Get(call).point.lat, Get(call).point.lng,
                                         Get(call).polygon))
                        @@ Results)
    /\ UNCHANGED << database, call >>

NextClient == callBackend \/ callClient

SpecClient == InitClient /\ [][NextClient]_vars

(* Schedules with windows that start or end at midnight, at 00:02, at      *)
(* 23:57 or at 23:59, on Monday, on Tuesday, on both or on no day          *)
ScheduleTimes ==
    { TimeString(0, 0), TimeString(0, 2), TimeString(23, 57), TimeString(23, 59) }

Schedules ==
    { None } \cup
    { Some([ enabled |-> e, startTime |-> s, endTime |-> t, days |-> d ]) :
        e \in BOOLEAN, s \in ScheduleTimes, t \in ScheduleTimes,
        d \in SUBSET { "monday", "tuesday" } }

(* The call is made at 23:52 on Monday or a number of clock steps later *)
InitSchedule ==
    /\ \E k \in 0 .. MaxTicks : now = k * TickMs
    /\ Empty
    /\ \E schedule \in Schedules : call = Some([ schedule |-> schedule ])
    /\ returned = None

(* isGeofenceActiveNow(g.schedule) *)
callIsGeofenceActiveNow ==
    /\ returned = None
    /\ returned' = Some(isGeofenceActiveNow(Get(call).schedule))
    /\ UNCHANGED << database, call >>

NextSchedule == callIsGeofenceActiveNow

SpecSchedule == InitSchedule /\ [][NextSchedule]_vars

----------------------------------------------------------------------------
(* Tracking against geofences whose geometry is incomplete or degenerate:  *)
(* createGeofence stores the shape, center, radius and coordinates it is   *)
(* given, whatever they are                                                *)

MaxGeometryCalls == 3

(* A polygon geofence with these coordinates *)
PolygonZone(coordinates) ==
    [ name |-> "fence", type |-> "alert_zone", shape |-> "polygon",
      center |-> None, radius |-> None, coordinates |-> coordinates,
      alertOnEntry |-> TRUE, alertOnExit |-> TRUE,
      schedule |-> None, userRules |-> None ]

(* A circle geofence with this center and radius *)
CircleZone(center, radius) ==
    [ name |-> "ring", type |-> "alert_zone", shape |-> "circle",
      center |-> center, radius |-> radius, coordinates |-> None,
      alertOnEntry |-> TRUE, alertOnExit |-> TRUE,
      schedule |-> None, userRules |-> None ]

(* The segment from (0, 0) to (2, 1) as a vertex list *)
Segment == << Point(0, 0), Point(2, 1) >>

GeometryArgs ==
    { PolygonZone(None), PolygonZone(Some(<< >>)),
      PolygonZone(Some(<< Point(0, 0) >>)), PolygonZone(Some(Segment)),
      CircleZone(None, Some(100)), CircleZone(Some(PIn), None),
      SafeCircle }

(* The samples of the other specifications and a point next to the segment *)
GeometrySamples == SampleLocations \cup { Point(1, 0) }

NextGeometry ==
    \/ Scheduler
    \/ /\ accepted + Len(geofences) < MaxGeometryCalls
       /\ \E location \in GeometrySamples : updateLocation("u1", "s1", location)
    \/ /\ accepted + Len(geofences) < MaxGeometryCalls
       /\ \E a \in GeometryArgs : createGeofence("u1", "s1", a)

InitGeometry ==
    /\ now = 0
    /\ sessions = << SessionsTable[1] >>
    /\ participants = << [ sessionId |-> "s1", userId |-> "u1", role |-> "Admin" ],
                         [ sessionId |-> "s1", userId |-> "u2", role |-> "Member" ] >>
    /\ geofences = << >>
    /\ locations = << >>
    /\ geofenceEvents = << >>
    /\ alerts = << >>
    /\ messages = << >>
    /\ notifications = << >>
    /\ scheduledChecks = {}
    /\ scheduledAlerts = {}
    /\ accepted = 0
    /\ handed = << >>
    /\ failedAlerts = {}
    /\ call = None
    /\ returned = None

SpecGeometry == InitGeometry /\ [][NextGeometry]_vars

----------------------------------------------------------------------------
(* Tracking in two sessions, each with a geofence around the same place,   *)
(* while the admins switch geofences off and on with bulkUpdateGeofences   *)

MaxActiveSamples == 2

(* The admin u1 of s1, the admin u3 of s2 *)
Admins == { "u1", "u3" }

InitActive ==
    /\ now = 0
    /\ sessions = SessionsTable
    /\ participants = << [ sessionId |-> "s1", userId |-> "u1", role |-> "Admin" ],
                         [ sessionId |-> "s1", userId |-> "u2", role |-> "Member" ],
                         [ sessionId |-> "s2", userId |-> "u3", role |-> "Admin" ] >>
    /\ geofences = << Some(Geofence("s1", "u1", SafeCircle)),
                      Some(Geofence("s2", "u3", RestrictedPolygon)) >>
    /\ locations = << >>
    /\ geofenceEvents = << >>
    /\ alerts = << >>
    /\ messages = << >>
    /\ notifications = << >>
    /\ scheduledChecks = {}
    /\ scheduledAlerts = {}
    /\ accepted = 0
    /\ handed = << >>
    /\ failedAlerts = {}
    /\ call = None
    /\ returned = None

NextActive ==
    \/ Scheduler
    \/ /\ accepted < MaxActiveSamples
       /\ \E caller \in Admins, sessionId \in Sessions, location \in SampleLocations :
            updateLocation(caller, sessionId, location)
    \/ \E caller \in Admins, sessionId \in Sessions,
          geofenceIds \in SUBSET SeqIndexes(geofences), updates \in BulkUpdates :
         bulkUpdateGeofences(caller, sessionId, geofenceIds, updates)

SpecActive == InitActive /\ [][NextActive]_vars

----------------------------------------------------------------------------
(* Tracking against circles around PIn of radius 0, of 100 m, and of       *)
(* 1111 m, which is the distance of 10 coordinate units                    *)

MaxCircleCalls == 3

Radii == { 0, 100, 1111 }

CircleArgs == { CircleZone(Some(PIn), Some(radius)) : radius \in Radii }

(* The center, a point 314 m from it, and a point 1111 m from it *)
CircleSamples == { PIn, POut, Point(11, 1) }

InitCircle == InitGeometry

NextCircle ==
    \/ Scheduler
    \/ /\ accepted + Len(geofences) < MaxCircleCalls
       /\ \E location \in CircleSamples : updateLocation("u1", "s1", location)
    \/ /\ accepted + Len(geofences) < MaxCircleCalls
       /\ \E a \in CircleArgs : createGeofence("u1", "s1", a)

SpecCircle == InitCircle /\ [][NextCircle]_vars

----------------------------------------------------------------------------
(* Dispatches for u1 and u2 in s1, against a geofence without rules, one   *)
(* with a rule for u2 that has a custom message and a priority, and one    *)
(* with a rule for u1 whose custom message is the empty string             *)

MaxDispatchSamples == 2

QuietZone ==
    [ name |-> "yard", type |-> "alert_zone", shape |-> "circle",
      center |-> Some(PIn), radius |-> Some(100), coordinates |-> None,
      alertOnEntry |-> TRUE, alertOnExit |-> TRUE,
      schedule |-> None,
      userRules |-> Some(<< Rule("u1", TRUE, TRUE, Some(""), None) >>) ]

DispatchArgs == { SafeCircle, RestrictedPolygon, QuietZone }

SessionMembers == { "u1", "u2" }

InitDispatch ==
    /\ now = 0
    /\ sessions = << SessionsTable[1] >>
    /\ participants = << [ sessionId |-> "s1", userId |-> "u1", role |-> "Admin" ],
                         [ sessionId |-> "s1", userId |-> "u2", role |-> "Member" ],
                         [ sessionId |-> "s1", userId |-> "u3", role |-> "Member" ] >>
    /\ \E a \in DispatchArgs : geofences = << Some(Geofence("s1", "u1", a)) >>
    /\ locations = << >>
    /\ geofenceEvents = << >>
    /\ alerts = << >>
    /\ messages = << >>
    /\ notifications = << >>
    /\ scheduledChecks = {}
    /\ scheduledAlerts = {}
    /\ accepted = 0
    /\ handed = << >>
    /\ failedAlerts = {}
    /\ call = None
    /\ returned = None

NextDispatch ==
    \/ Scheduler
    \/ /\ accepted < MaxDispatchSamples
       /\ \E caller \in SessionMembers, location \in SampleLocations :
            updateLocation(caller, "s1", location)

SpecDispatch == InitDispatch /\ [][NextDispatch]_vars

----------------------------------------------------------------------------
(* Clients that report their next sample once the check of the previous    *)
(* one has run: the checks of a (session, user) pair run one at a time, in *)
(* the order of arrival.  The geofence has no schedule and is left alone.  *)

MaxPacedSamples == 4

UnscheduledArgs == { SafeCircle, RestrictedPolygon }

(* No check of the pair waits in the scheduler *)
Evaluated_All(sessionId, userId) ==
    \A job \in scheduledChecks : job.sessionId # sessionId \/ job.userId # userId

InitPaced ==
    /\ InitTracking
    /\ \E a \in UnscheduledArgs : geofences = << Some(Geofence("s1", "u1", a)) >>

NextPaced ==
    \/ Scheduler
    \/ /\ accepted < MaxPacedSamples
       /\ \E caller \in SessionMembers, location \in SampleLocations :
            /\ Evaluated_All("s1", caller)
            /\ updateLocation(caller, "s1", location)

SpecPaced == InitPaced /\ [][NextPaced]_vars

----------------------------------------------------------------------------
(* Location tracking with the scheduler's guarantee: a function scheduled  *)
(* by a mutation that commits is run; a scheduled mutation is run exactly  *)
(* once                                                                    *)

MaxScheduledSamples == 2

RunCheck == \E job \in scheduledChecks : checkGeofenceEvents(job)

NextScheduled ==
    \/ Scheduler
    \/ /\ accepted < MaxScheduledSamples
       /\ \E caller \in Reporters, sessionId \in Sessions,
             location \in SampleLocations :
            updateLocation(caller, sessionId, location)

InitScheduled == InitTracking

SpecScheduled == InitScheduled /\ [][NextScheduled]_vars /\ WF_vars(RunCheck)

----------------------------------------------------------------------------
(* Dispatches for a geofence that can be deleted before they run, on a     *)
(* storage whose inserts can fail                                          *)

MaxOrphanSamples == 2

InitOrphan == InitLifecycle

NextOrphan ==
    \/ Scheduler
    \/ InsertThrows
    \/ /\ accepted < MaxOrphanSamples
       /\ \E caller \in SessionMembers, location \in SampleLocations :
            updateLocation(caller, "s1", location)
    \/ \E caller \in SessionMembers, geofenceId \in SeqIndexes(geofences) :
         deleteGeofence(caller, geofenceId)

SpecOrphan == InitOrphan /\ [][NextOrphan]_vars

----------------------------------------------------------------------------
(* Sessions: the mutations createSession and joinByCode, from an          *)
(* empty database, with a geofence and a location sample to dispatch       *)

MaxSessions == 2

(* The ids that ctx.db.insert("sessions", ...) returns, in creation order *)
SessionIds == << "s1", "s2", "s3", "s4" >>

createSession(caller, shareCode) ==
    IF caller = NoUser
    THEN UNCHANGED vars
    ELSE LET sessionId == SessionIds[Len(sessions) + 1]
         IN  /\ sessions' = Append(sessions, Session(sessionId, caller, shareCode))
             /\ participants' = Append(participants,
                    [ sessionId |-> sessionId, userId |-> caller, role |-> "Admin" ])
             /\ UNCHANGED << now, geofences, locations, geofenceEvents, alerts,
                             messages, notifications, scheduledChecks,
                             scheduledAlerts, accepted, handed, failedAlerts,
                             call, returned >>

(* sessions by_share_code, .first() *)
SessionByCode(shareCode) ==
    LET Match(session) == session.shareCode = shareCode
    IN  First(sessions, Match)

(* Mutation of joinByCode: without the test for an existing participant *)
joinByCode_NoCheck(caller, shareCode) ==
    IF \/ caller = NoUser
       \/ ~IsSome(SessionByCode(shareCode))
       \/ ~Get(SessionByCode(shareCode)).active
    THEN UNCHANGED vars
    ELSE /\ participants' = Append(participants,
                [ sessionId |-> Get(SessionByCode(shareCode)).id,
                  userId |-> caller, role |-> "Member" ])
         /\ UNCHANGED << now, sessions, geofences, locations, geofenceEvents,
                         alerts, messages, notifications, scheduledChecks,
                         scheduledAlerts, accepted, handed, failedAlerts,
                         call, returned >>

joinByCode(caller, shareCode) ==
    IF \/ caller = NoUser
       \/ ~IsSome(SessionByCode(shareCode))
       \/ ~Get(SessionByCode(shareCode)).active
    THEN UNCHANGED vars                     \* throws
    ELSE IF IsSome(Participant(Get(SessionByCode(shareCode)).id, caller))
    THEN UNCHANGED vars                     \* returns session._id
    ELSE /\ participants' = Append(participants,
                [ sessionId |-> Get(SessionByCode(shareCode)).id,
                  userId |-> caller, role |-> "Member" ])
         /\ UNCHANGED << now, sessions, geofences, locations, geofenceEvents,
                         alerts, messages, notifications, scheduledChecks,
                         scheduledAlerts, accepted, handed, failedAlerts,
                         call, returned >>

(* The ids of the sessions created so far *)
CreatedSessions == { sessions[i].id : i \in SeqIndexes(sessions) }

InitSessions ==
    /\ now = 0
    /\ Empty
    /\ call = None
    /\ returned = None

(* u1 creates the sessions; u1 and u2 join and report; a caller who is not *)
(* signed in tries both                                                    *)
Creators == { "u1", NoUser }

Joiners == { "u1", "u2", NoUser }

NextSessions ==
    \/ Scheduler
    \/ /\ Len(sessions) < MaxSessions
       /\ \E caller \in Creators, shareCode \in ShareCodes :
            createSession(caller, shareCode)
    \/ \E caller \in Joiners, shareCode \in ShareCodes : joinByCode(caller, shareCode)
    \/ /\ Len(geofences) < 1
       /\ \E sessionId \in CreatedSessions : createGeofence("u1", sessionId, SafeCircle)
    \/ /\ accepted < 1
       /\ \E caller \in Joiners, sessionId \in CreatedSessions :
            updateLocation(caller, sessionId, PIn)

SpecSessions == InitSessions /\ [][NextSessions]_vars

----------------------------------------------------------------------------
(* Vocabulary of the properties below *)

(* This step is the scheduler running the pending check job *)
RanCheck(job) == job \in scheduledChecks /\ job \notin scheduledChecks'

(* This step is the scheduler running the pending dispatch job *)
RanAlert(job) == job \in scheduledAlerts /\ job \notin scheduledAlerts'

(* Geofence id is one the check of job evaluates at the present time *)
Evaluated(id, job) ==
    /\ IsSome(geofences[id])
    /\ Get(geofences[id]).sessionId = job.sessionId
    /\ Get(geofences[id]).active
    /\ isGeofenceActiveNow(Get(geofences[id]).schedule)

(* The rows of the events table evs of one type for (user, geofence) *)
EventsOf(evs, userId, id, eventType) ==
    { i \in SeqIndexes(evs) : /\ evs[i].userId = userId
                              /\ evs[i].geofenceId = id
                              /\ evs[i].eventType = eventType }

(* The rows this step adds to the events table *)
Added(userId, id, eventType) ==
    EventsOf(geofenceEvents', userId, id, eventType)
        \ EventsOf(geofenceEvents, userId, id, eventType)

Newest(rows) == CHOOSE i \in rows : \A k \in rows : k <= i

InsideNow(id, job) == Contains(Get(geofences[id]), job.location)

InsideBefore(id, job) ==
    /\ IsSome(job.previousLocation)
    /\ Contains(Get(geofences[id]), Get(job.previousLocation))

Restricted(id) == Get(geofences[id]).type = "restricted_zone"

(* No violation event of (user, geofence) lies within the cooldown *)
CooldownOver(userId, id) ==
    LET old == EventsOf(geofenceEvents, userId, id, "violation")
    IN  old = {} \/ now - geofenceEvents[Newest(old)].timestamp > 300000

(* C1: a check of a user inside a restricted zone records one new          *)
(* violation event, stamped now and with alertSent, iff the pair has no    *)
(* violation event or its newest one is more than 300000 ms old; else it   *)
(* records no violation event at all.                                      *)
C1_ViolationCooldown ==
    [][ \A job \in scheduledChecks : \A id \in SeqIndexes(geofences) :
          (RanCheck(job) /\ Evaluated(id, job) /\ Restricted(id) /\ InsideNow(id, job))
          => LET added == Added(job.userId, id, "violation")
             IN  IF CooldownOver(job.userId, id)
                 THEN /\ Cardinality(added) = 1
                      /\ \A i \in added : /\ geofenceEvents'[i].timestamp = now
                                          /\ geofenceEvents'[i].alertSent
                 ELSE /\ added = {}
                      /\ Len(geofenceEvents') - Len(geofenceEvents)
                            = Cardinality(Added(job.userId, id, "entry"))
      ]_vars

(* C1 witness: three samples inside the restricted zone, all checked: the  *)
(* ones at t and t + 10 min have a violation event, and no third exists    *)
C1_Witness ==
    /\ Len(locations) = 3
    /\ \A i \in SeqIndexes(locations) :
          locations[i].userId = "u1" /\ locations[i].location = PIn
    /\ scheduledChecks = {}
    /\ Restricted(1)
    /\ { geofenceEvents[i].timestamp :
            i \in EventsOf(geofenceEvents, "u1", 1, "violation") } = { 0, 2 * TickMs }
    /\ Cardinality(EventsOf(geofenceEvents, "u1", 1, "violation")) = 2

(* C2: no two violation events of one (user, geofence) pair are 5 minutes  *)
(* or less apart, whatever the order in which pending checks run.          *)
C2_NoDuplicateViolation ==
    \A i, k \in SeqIndexes(geofenceEvents) :
        ( /\ i < k
          /\ geofenceEvents[i].eventType = "violation"
          /\ geofenceEvents[k].eventType = "violation"
          /\ geofenceEvents[i].userId = geofenceEvents[k].userId
          /\ geofenceEvents[i].geofenceId = geofenceEvents[k].geofenceId )
        => geofenceEvents[k].timestamp - geofenceEvents[i].timestamp > 300000

(* C2 witness: the check of the pair's first sample is still pending while *)
(* a check of a later sample of the pair has recorded a violation event,   *)
(* and both samples are inside the restricted zone                         *)
C2_Witness ==
    \E job \in scheduledChecks :
        /\ job.seq = 1
        /\ Restricted(1)
        /\ Evaluated(1, job)
        /\ InsideNow(1, job)
        /\ EventsOf(geofenceEvents, job.userId, 1, "violation") # {}

(* The rows of the locations table of the pair of row i that precede it *)
EarlierSamples(i) ==
    { k \in 1 .. i - 1 : /\ locations[k].userId = locations[i].userId
                         /\ locations[k].sessionId = locations[i].sessionId }

(* The check job is that of the first sample its pair had accepted *)
FirstSample(job) == EarlierSamples(job.seq) = {}

(* The check job is that of a sample at the location of the sample the     *)
(* pair had accepted just before                                           *)
RepeatedSample(job) ==
    /\ EarlierSamples(job.seq) # {}
    /\ locations[Newest(EarlierSamples(job.seq))].location = job.location

(* The system messages that refer to event row e: one per Alert created    *)
(* for it                                                                  *)
AlertsFor(msgs, e) ==
    { i \in SeqIndexes(msgs) : msgs[i].metadata.geofenceEventId = e }

AllTypes == { "entry", "exit", "violation" }

(* C3: for an evaluated geofence that is no restricted zone and alerts on  *)
(* entry, the check of a pair's first sample, inside the geofence, records *)
(* exactly one event, an entry with alertSent, and schedules one dispatch  *)
(* for it, which creates exactly one Alert; the check of a following       *)
(* sample at the same location records no event and schedules nothing.     *)
C3_EntryOnceThenNothing ==
    [][ /\ \A job \in scheduledChecks : \A id \in SeqIndexes(geofences) :
            ( /\ RanCheck(job) /\ Evaluated(id, job) /\ ~Restricted(id)
              /\ Get(geofences[id]).alertOnEntry /\ InsideNow(id, job) )
            => /\ FirstSample(job) =>
                    /\ Cardinality(Added(job.userId, id, "entry")) = 1
                    /\ Added(job.userId, id, "exit") = {}
                    /\ Added(job.userId, id, "violation") = {}
                    /\ \A i \in Added(job.userId, id, "entry") :
                          /\ geofenceEvents'[i].alertSent
                          /\ scheduledAlerts' \ scheduledAlerts
                                = { AlertJob(i, id, job.userId, "entry") }
               /\ RepeatedSample(job) =>
                    /\ \A t \in AllTypes : Added(job.userId, id, t) = {}
                    /\ geofenceEvents' = geofenceEvents
                    /\ scheduledAlerts' = scheduledAlerts
        /\ \A job \in scheduledAlerts :
            (RanAlert(job) /\ job.eventType = "entry" /\ IsSome(geofences[job.geofenceId]))
            => /\ Len(alerts') = Len(alerts) + 1
               /\ AlertsFor(messages, job.eventId) = {}
               /\ Cardinality(AlertsFor(messages', job.eventId)) = 1
      ]_vars

(* C3 witness: two samples of u1 at the same point inside the safe zone,   *)
(* both checked and the dispatch run: one entry event and one Alert        *)
C3_Witness ==
    /\ Len(locations) = 2
    /\ \A i \in SeqIndexes(locations) :
          locations[i].userId = "u1" /\ locations[i].location = PIn
    /\ scheduledChecks = {} /\ scheduledAlerts = {}
    /\ ~Restricted(1) /\ Get(geofences[1]).alertOnEntry
    /\ Len(geofenceEvents) = 1
    /\ geofenceEvents[1].eventType = "entry" /\ geofenceEvents[1].alertSent
    /\ Len(alerts) = 1

(* C4: in a check of an evaluated restricted zone with the sample inside,  *)
(* a previous sample outside (or none) gives one entry event, and a        *)
(* violation event is recorded whenever the cooldown allows it: with or    *)
(* without the entry, and whatever alertOnEntry says.                      *)
C4_EntryAndViolation ==
    [][ \A job \in scheduledChecks : \A id \in SeqIndexes(geofences) :
          (RanCheck(job) /\ Evaluated(id, job) /\ Restricted(id) /\ InsideNow(id, job))
          => /\ Cardinality(Added(job.userId, id, "entry"))
                    = IF InsideBefore(id, job) THEN 0 ELSE 1
             /\ Added(job.userId, id, "exit") = {}
             /\ CooldownOver(job.userId, id)
                    => Cardinality(Added(job.userId, id, "violation")) = 1
      ]_vars

(* C4 witness: u1 moved from outside into a restricted zone that does not  *)
(* alert on entry; the one check recorded an entry and a violation         *)
C4_Witness ==
    /\ Len(locations) = 2
    /\ locations[1].location = POut /\ locations[2].location = PIn
    /\ locations[1].userId = "u1" /\ locations[2].userId = "u1"
    /\ scheduledChecks = {}
    /\ Restricted(1) /\ ~Get(geofences[1]).alertOnEntry
    /\ Len(geofenceEvents) = 2
    /\ geofenceEvents[1].eventType = "entry"
    /\ geofenceEvents[2].eventType = "violation"
    /\ geofenceEvents[1].timestamp = geofenceEvents[2].timestamp

(* The pending dispatches for event row e *)
PendingFor(jobs, e) == { job \in jobs : job.eventId = e }

(* The notifications that refer to event row e *)
NotificationsFor(e) ==
    { i \in SeqIndexes(notifications) : notifications[i].data.geofenceEventId = e }

(* An event without alertSent has no dispatch, Alert, Message or           *)
(* Notification                                                            *)
SilentEventsStaySilent ==
    \A e \in SeqIndexes(geofenceEvents) :
        ~geofenceEvents[e].alertSent
        => /\ PendingFor(scheduledAlerts, e) = {}
           /\ AlertsFor(messages, e) = {}
           /\ NotificationsFor(e) = {}

(* C5 as claimed: an event with alertSent never has two Alerts, and has    *)
(* exactly one once no dispatch for it is pending; an event without        *)
(* alertSent has none.  Fails: the dispatch of an event whose geofence was *)
(* deleted in between creates nothing.                                     *)
C5_ExactlyOneAlert ==
    /\ SilentEventsStaySilent
    /\ \A e \in SeqIndexes(geofenceEvents) :
          geofenceEvents[e].alertSent
          => /\ Cardinality(AlertsFor(messages, e)) <= 1
             /\ PendingFor(scheduledAlerts, e) = {}
                  => Cardinality(AlertsFor(messages, e)) = 1

(* C5 amended: every event with alertSent gets exactly one dispatch,       *)
(* scheduled in the step that records it; the dispatch creates exactly one *)
(* Alert if the geofence still exists when it runs and nothing otherwise,  *)
(* so no event ever has two Alerts; an event without alertSent gets        *)
(* nothing.                                                                *)
C5_OneDispatchPerAlertingEvent ==
    /\ [](/\ SilentEventsStaySilent
          /\ \A e \in SeqIndexes(geofenceEvents) :
                /\ Cardinality(AlertsFor(messages, e)) <= 1
                /\ Cardinality(PendingFor(scheduledAlerts, e)) <= 1
                /\ PendingFor(scheduledAlerts, e) # {} => AlertsFor(messages, e) = {})
    /\ [][ /\ \A e \in SeqIndexes(geofenceEvents') \ SeqIndexes(geofenceEvents) :
                geofenceEvents'[e].alertSent
                => Cardinality(PendingFor(scheduledAlerts', e)) = 1
           /\ \A job \in scheduledAlerts :
                RanAlert(job)
                => IF IsSome(geofences[job.geofenceId])
                   THEN /\ Len(alerts') = Len(alerts) + 1
                        /\ Cardinality(AlertsFor(messages', job.eventId)) = 1
                   ELSE /\ alerts' = alerts
                        /\ messages' = messages
                        /\ notifications' = notifications
         ]_vars

(* C5 witness: a check recorded an entry without alertSent and a violation *)
(* with it; the one dispatch has run and made the one Alert                *)
C5_Witness ==
    /\ Len(geofenceEvents) = 2
    /\ ~geofenceEvents[1].alertSent /\ geofenceEvents[2].alertSent
    /\ scheduledAlerts = {}
    /\ Len(alerts) = 1
    /\ AlertsFor(messages, 1) = {}
    /\ Cardinality(AlertsFor(messages, 2)) = 1
    /\ NotificationsFor(2) # {}

(* C6: a check that detects an entry (inside now, not before) adds exactly *)
(* one entry event for (user, geofence), and one that detects an exit      *)
(* exactly one exit event, whatever shouldAlert is and whatever events the *)
(* table holds already.                                                    *)
C6_TransitionsAlwaysRecorded ==
    [][ \A job \in scheduledChecks : \A id \in SeqIndexes(geofences) :
          (RanCheck(job) /\ Evaluated(id, job))
          => /\ (InsideNow(id, job) /\ ~InsideBefore(id, job))
                  => /\ Cardinality(Added(job.userId, id, "entry")) = 1
                     /\ EventsOf(geofenceEvents, job.userId, id, "entry")
                            \subseteq EventsOf(geofenceEvents', job.userId, id, "entry")
             /\ (~InsideNow(id, job) /\ InsideBefore(id, job))
                  => /\ Cardinality(Added(job.userId, id, "exit")) = 1
                     /\ EventsOf(geofenceEvents, job.userId, id, "exit")
                            \subseteq EventsOf(geofenceEvents', job.userId, id, "exit")
      ]_vars

(* C6 witness: u1 entered the same zone twice, and both entry events are   *)
(* stored, neither of them alerting                                        *)
C6_Witness ==
    /\ Cardinality(EventsOf(geofenceEvents, "u1", 1, "entry")) = 2
    /\ \A i \in EventsOf(geofenceEvents, "u1", 1, "entry") : ~geofenceEvents[i].alertSent
    /\ Cardinality(EventsOf(geofenceEvents, "u1", 1, "exit")) = 1
    /\ scheduledChecks = {}

(* The triggering user has a rule that alerts on entry / on exit *)
RuleAlertsOnEntry(id, userId) ==
    /\ IsSome(Get(geofences[id]).userRules)
    /\ \E r \in { Get(Get(geofences[id]).userRules)[i] :
                    i \in SeqIndexes(Get(Get(geofences[id]).userRules)) } :
          r.userId = userId /\ r.alertOnEntry

RuleAlertsOnExit(id, userId) ==
    /\ IsSome(Get(geofences[id]).userRules)
    /\ \E r \in { Get(Get(geofences[id]).userRules)[i] :
                    i \in SeqIndexes(Get(Get(geofences[id]).userRules)) } :
          r.userId = userId /\ r.alertOnExit

(* C7: the alertSent of a recorded entry event is the geofence's           *)
(* alertOnEntry or the triggering user's own rule's alertOnEntry, that of  *)
(* an exit event the same with alertOnExit, and that of a violation event  *)
(* is true.                                                                *)
C7_AlertFlags ==
    [][ \A job \in scheduledChecks : \A id \in SeqIndexes(geofences) :
          (RanCheck(job) /\ Evaluated(id, job))
          => /\ \A i \in Added(job.userId, id, "entry") :
                  geofenceEvents'[i].alertSent
                    = (Get(geofences[id]).alertOnEntry \/ RuleAlertsOnEntry(id, job.userId))
             /\ \A i \in Added(job.userId, id, "exit") :
                  geofenceEvents'[i].alertSent
                    = (Get(geofences[id]).alertOnExit \/ RuleAlertsOnExit(id, job.userId))
             /\ \A i \in Added(job.userId, id, "violation") :
                  geofenceEvents'[i].alertSent = TRUE
      ]_vars

(* C7 witness: an entry event that alerts through the user's own rule      *)
(* alone, and an exit event that alerts through the geofence's flag though *)
(* the user's rule has alertOnExit false                                   *)
C7_Witness ==
    /\ ~Get(geofences[1]).alertOnEntry /\ RuleAlertsOnEntry(1, "u1")
    /\ Get(geofences[1]).alertOnExit /\ ~RuleAlertsOnExit(1, "u1")
    /\ \E i \in EventsOf(geofenceEvents, "u1", 1, "entry") : geofenceEvents[i].alertSent
    /\ \E i \in EventsOf(geofenceEvents, "u1", 1, "exit") : geofenceEvents[i].alertSent

(* The minute of the day an "HH:MM" string names *)
MinuteOfDay(str) ==
    ((str[1] - 48) * 10 + (str[2] - 48)) * 60 + (str[4] - 48) * 10 + (str[5] - 48)

(* The window of an enabled schedule holds at the present time *)
WindowHolds(schedule) ==
    LET t == MinuteAt(now) % 1440
        start == MinuteOfDay(schedule.startTime)
        end == MinuteOfDay(schedule.endTime)
    IN  /\ DayAt(now) \in schedule.days
        /\ IF start <= end THEN start <= t /\ t <= end ELSE t >= start \/ t <= end

(* C8: a check records no event, of any type or user, for a geofence whose *)
(* schedule is enabled and whose window does not hold at that time.        *)
C8_OutsideWindowNoEvents ==
    [][ \A job \in scheduledChecks : \A id \in SeqIndexes(geofences) :
          ( /\ RanCheck(job)
            /\ IsSome(geofences[id])
            /\ IsSome(Get(geofences[id]).schedule)
            /\ Get(Get(geofences[id]).schedule).enabled
            /\ ~WindowHolds(Get(Get(geofences[id]).schedule)) )
          => { i \in SeqIndexes(geofenceEvents') : geofenceEvents'[i].geofenceId = id }
               = { i \in SeqIndexes(geofenceEvents) : geofenceEvents[i].geofenceId = id }
      ]_vars

(* C8 witness: at 23:52, before the window opens, the sample of u1 inside  *)
(* the scheduled zone has been checked and no event is stored              *)
C8_Witness ==
    /\ now = 0
    /\ IsSome(Get(geofences[1]).schedule)
    /\ ~WindowHolds(Get(Get(geofences[1]).schedule))
    /\ Len(locations) = 1 /\ locations[1].location = PIn
    /\ Contains(Get(geofences[1]), PIn)
    /\ scheduledChecks = {}
    /\ geofenceEvents = << >>

(* C9: the duration of every exit event is its timestamp minus that of the *)
(* entry event of the same (user, geofence) recorded last before it, and   *)
(* is absent when no entry event was recorded before it.                   *)
C9_ExitDuration ==
    \A i \in SeqIndexes(geofenceEvents) :
        geofenceEvents[i].eventType = "exit"
        => LET prior == { k \in EventsOf(geofenceEvents, geofenceEvents[i].userId,
                                         geofenceEvents[i].geofenceId, "entry") : k < i }
           IN  /\ IsSome(geofenceEvents[i].metadata)
               /\ Get(geofenceEvents[i].metadata).duration
                    = IF prior = {} THEN None
                      ELSE Some(geofenceEvents[i].timestamp
                                  - geofenceEvents[Newest(prior)].timestamp)

(* C9 witness: u1 entered geofence 1, left it one clock step later, and   *)
(* the exit event carries the time between the two                         *)
C9_Witness ==
    \E i \in EventsOf(geofenceEvents, "u1", 1, "exit") :
        \E k \in EventsOf(geofenceEvents, "u1", 1, "entry") :
            /\ k < i
            /\ geofenceEvents[i].timestamp = geofenceEvents[k].timestamp + TickMs
            /\ Get(geofenceEvents[i].metadata).duration = Some(TickMs)

(* C10 as claimed: the check of a sample runs only when no check of an     *)
(* earlier accepted sample of the same (session, user) is still pending.   *)
(* Fails: the scheduler may run the pending checks of a pair in any order. *)
C10_ChecksInArrivalOrder ==
    [][ \A job \in scheduledChecks :
          RanCheck(job)
          => ~ \E earlier \in scheduledChecks :
                 /\ earlier.sessionId = job.sessionId
                 /\ earlier.userId = job.userId
                 /\ earlier.seq < job.seq
      ]_vars

(* The outcome of C10's failure: an exit event of u1, without a duration,  *)
(* stored before the entry event of the sample that preceded it            *)
C10_ExitStoredBeforeEntry ==
    \E i \in EventsOf(geofenceEvents, "u1", 1, "exit") :
        \E k \in EventsOf(geofenceEvents, "u1", 1, "entry") :
            /\ i < k
            /\ Get(geofenceEvents[i].metadata).duration = None
            /\ Len(locations) = 2
            /\ locations[1].location = PIn /\ locations[2].location = POut

(* The rows step by step added to the events table *)
NewEvents == SubSeq(geofenceEvents', Len(geofenceEvents) + 1, Len(geofenceEvents'))

(* What the check of job records when the events table holds nothing but   *)
(* the events of the job's own (session, user) pair                        *)
RecordedAlone(job) ==
    LET Own(e) == e.userId = job.userId /\ e.sessionId = job.sessionId
        own == SelectSeq(geofenceEvents, Own)
        after == GeofenceLoop([ events |-> own, jobs |-> {} ], 1, job).events
    IN  SubSeq(after, Len(own) + 1, Len(after))

(* C11: a check appends to the events table, and leaves the stored events  *)
(* alone; the events it appends carry the job's user and session, and are  *)
(* the events it would append if the events of all other (session, user)   *)
(* pairs were not in the table.                                            *)
C11_PairsIndependent ==
    [][ \A job \in scheduledChecks :
          RanCheck(job)
          => /\ SubSeq(geofenceEvents', 1, Len(geofenceEvents)) = geofenceEvents
             /\ \A i \in SeqIndexes(NewEvents) :
                   /\ NewEvents[i].userId = job.userId
                   /\ NewEvents[i].sessionId = job.sessionId
             /\ NewEvents = RecordedAlone(job)
      ]_vars

(* C11 witness: u2 and then u1 are inside the restricted zone of s1 at the *)
(* same time, and each has its own violation event: the cooldown of u1 did *)
(* not count the violation of u2                                           *)
C11_Witness ==
    /\ Restricted(1)
    /\ \E i \in EventsOf(geofenceEvents, "u2", 1, "violation") :
         \E k \in EventsOf(geofenceEvents, "u1", 1, "violation") :
            i < k /\ geofenceEvents[i].timestamp = geofenceEvents[k].timestamp

(* This step is the dispatch job throwing at the write *)
Threw(job, write) ==
    /\ RanAlert(job)
    /\ [ job |-> job, write |-> write ] \in failedAlerts' \ failedAlerts

(* C12 as claimed: when the dispatch of an event throws at the insert of   *)
(* the Message or of a Notification, the Alert it has inserted before is   *)
(* stored.  Fails: the three inserts are one transaction, and the Alert is *)
(* rolled back with it.                                                    *)
C12_AlertSurvivesLaterFailure ==
    [][ \A job \in scheduledAlerts : \A write \in { "message", "notification" } :
          Threw(job, write)
          => /\ Len(alerts') = Len(alerts) + 1
             /\ alerts'[Len(alerts')].createdBy = job.userId
      ]_vars

(* C13: a dispatch that throws leaves the events table, the locations      *)
(* table, the pending checks and the log of accepted samples as they are;  *)
(* so the event of every failed dispatch is stored as recorded, the sample *)
(* that triggered it was accepted, and its pair has a location row.        *)
C13_DispatchFailureIsolated ==
    /\ [](\A f \in failedAlerts :
            /\ f.job.eventId \in SeqIndexes(geofenceEvents)
            /\ LET event == geofenceEvents[f.job.eventId]
               IN  /\ event.userId = f.job.userId
                   /\ event.geofenceId = f.job.geofenceId
                   /\ event.eventType = f.job.eventType
                   /\ \E k \in SeqIndexes(handed) :
                         /\ handed[k].userId = event.userId
                         /\ handed[k].sessionId = event.sessionId
                         /\ handed[k].location = event.location
                   /\ \E i \in SeqIndexes(locations) :
                         /\ locations[i].userId = event.userId
                         /\ locations[i].sessionId = event.sessionId)
    /\ [][ \A job \in scheduledAlerts : \A write \in DispatchWrites :
             Threw(job, write)
             => /\ geofenceEvents' = geofenceEvents
                /\ locations' = locations
                /\ scheduledChecks' = scheduledChecks
                /\ handed' = handed
         ]_vars

(* C13 witness: the dispatch of the entry of u1 has thrown; the event and  *)
(* the sample are stored, and a later sample of u1 has been accepted and   *)
(* checked                                                                 *)
C13_Witness ==
    /\ \E f \in failedAlerts :
          /\ f.job.userId = "u1"
          /\ geofenceEvents[f.job.eventId].eventType = "entry"
          /\ geofenceEvents[f.job.eventId].location = handed[1].location
    /\ Len(handed) = 2
    /\ handed[2].userId = "u1" /\ handed[2].sessionId = "s1"
    /\ scheduledChecks = {}
    /\ \E i \in SeqIndexes(locations) :
          locations[i].userId = "u1" /\ locations[i].location = handed[2].location

NewNotifications ==
    SubSeq(notifications', Len(notifications) + 1, Len(notifications'))

(* The rows of the participants table for user u in session s *)
ParticipantRows(s, u) ==
    { i \in SeqIndexes(participants) :
        participants[i].sessionId = s /\ participants[i].userId = u }

(* C14: a dispatch that finds its geofence, user and event appends one     *)
(* notification for each participant of the geofence's session but the     *)
(* triggering user, each referring to the event, and no other one.         *)
C14_NotifiesOtherParticipants ==
    [][ \A job \in scheduledAlerts :
          (RanAlert(job) /\ DispatchTargetsExist(job) /\ failedAlerts' = failedAlerts)
          => LET session == Get(geofences[job.geofenceId]).sessionId
             IN  /\ SubSeq(notifications', 1, Len(notifications)) = notifications
                 /\ \A u \in Users \cup { NoUser } :
                       Cardinality({ i \in SeqIndexes(NewNotifications) :
                                        NewNotifications[i].userId = u })
                         = IF u = job.userId THEN 0
                           ELSE Cardinality(ParticipantRows(session, u))
                 /\ \A i \in SeqIndexes(NewNotifications) :
                       /\ NewNotifications[i].sessionId = session
                       /\ NewNotifications[i].data.geofenceEventId = job.eventId
      ]_vars

(* C14 witness: the dispatches of a violation of u3, alone in s2, and of   *)
(* an entry of u2 in s1 have run: u1 has the one notification there is     *)
C14_Witness ==
    /\ scheduledAlerts = {} /\ scheduledChecks = {}
    /\ \E i \in SeqIndexes(alerts) : alerts[i].createdBy = "u3"
    /\ \E i \in SeqIndexes(alerts) : alerts[i].createdBy = "u2"
    /\ Len(alerts) = 2
    /\ Len(notifications) = 1
    /\ notifications[1].userId = "u1"
    /\ geofenceEvents[notifications[1].data.geofenceEventId].userId = "u2"

(* The fields of an event that acknowledgeGeofenceEvent does not write *)
Recorded(e) ==
    [ sessionId |-> e.sessionId, geofenceId |-> e.geofenceId, userId |-> e.userId,
      eventType |-> e.eventType, timestamp |-> e.timestamp,
      location |-> e.location, alertSent |-> e.alertSent, metadata |-> e.metadata ]

(* C15: no step removes an event or changes what was recorded in it, also  *)
(* not the deletion of its geofence; a step that changes an event changes  *)
(* nothing but that one row of the events table, which it marks            *)
(* acknowledged, now, by a participant of the event's session.             *)
C15_EventsKeptAsRecorded ==
    [][ /\ Len(geofenceEvents') >= Len(geofenceEvents)
        /\ \A e \in SeqIndexes(geofenceEvents) :
              /\ Recorded(geofenceEvents'[e]) = Recorded(geofenceEvents[e])
              /\ geofenceEvents'[e] # geofenceEvents[e]
                   => /\ geofenceEvents'[e].acknowledged
                      /\ geofenceEvents'[e].acknowledgedAt = Some(now)
                      /\ \E u \in Users :
                            /\ geofenceEvents'[e].acknowledgedBy = Some(u)
                            /\ ParticipantRows(geofenceEvents[e].sessionId, u) # {}
                      /\ geofenceEvents' = [ geofenceEvents EXCEPT
                                               ![e] = geofenceEvents'[e] ]
                      /\ UNCHANGED << now, sessions, participants, geofences, locations,
                                      alerts, messages, notifications,
                                      scheduledChecks, scheduledAlerts, accepted >>
      ]_vars

(* C15 witness: the safe zone was deleted after u1 had entered it, and u2  *)
(* has acknowledged the entry event, which still refers to it              *)
C15_Witness ==
    /\ geofences[1] = None
    /\ Len(geofenceEvents) = 1
    /\ geofenceEvents[1].geofenceId = 1
    /\ geofenceEvents[1].eventType = "entry"
    /\ geofenceEvents[1].acknowledged
    /\ geofenceEvents[1].acknowledgedBy = Some("u2")

(* C16: isPointInPolygon returns for a point and a vertex list what it     *)
(* has returned for the point and the list before its rotation by one      *)
(* vertex, and so for every rotation of the list.                          *)
C16_RotationInvariant ==
    [][ ( /\ IsSome(returned) /\ IsSome(returned')
          /\ Get(call').point = Get(call).point
          /\ Get(call').polygon = Rotated(Get(call).polygon) )
        => returned' = returned
      ]_vars

(* C16 witness: a triangle has been rotated twice, and the point is inside *)
(* each time                                                               *)
C16_Witness ==
    /\ IsSome(call) /\ IsSome(returned)
    /\ Len(Get(call).polygon) = 3
    /\ Get(call).rotations = 2
    /\ Get(returned)

(* C17: for a geofence that a check evaluates, the check records one entry *)
(* event if the sample is inside and the previous sample is missing or not *)
(* inside, and else none; one exit event if the sample is not inside and   *)
(* the previous sample exists and is inside, and else none.                *)
C17_TransitionRule ==
    [][ \A job \in scheduledChecks : \A id \in SeqIndexes(geofences) :
          (RanCheck(job) /\ Evaluated(id, job))
          => LET isInside == Contains(Get(geofences[id]), job.location)
                 previousInside ==
                    /\ job.previousLocation # None
                    /\ Contains(Get(geofences[id]), job.previousLocation[1])
             IN  /\ Cardinality(Added(job.userId, id, "entry"))
                      = IF isInside /\ ~previousInside THEN 1 ELSE 0
                 /\ Cardinality(Added(job.userId, id, "exit"))
                      = IF ~isInside /\ previousInside THEN 1 ELSE 0
      ]_vars

(* C17 witness: the first sample of u1 lies inside the geofence, and its   *)
(* check has recorded an entry event                                       *)
C17_Witness ==
    /\ Len(locations) = 1
    /\ locations[1].userId = "u1" /\ locations[1].location = PIn
    /\ handed[1].previousLocation = None
    /\ scheduledChecks = {}
    /\ Cardinality(EventsOf(geofenceEvents, "u1", 1, "entry")) = 1
    /\ EventsOf(geofenceEvents, "u1", 1, "exit") = {}

(* C18: isGeofenceActiveNow returns true for a missing or disabled         *)
(* schedule; else false on a weekday that is not in days; else, with the   *)
(* times as minutes of the day, start <= t <= end when start <= end, and   *)
(* t >= start or t <= end when start > end; the weekday is that of the     *)
(* present calendar day.                                                   *)
C18_ScheduleWindow ==
    IsSome(returned)
    => LET schedule == Get(call).schedule
           t == MinuteAt(now) % 1440
           day == DayAt(now)
       IN  Get(returned)
             = IF schedule = None \/ ~Get(schedule).enabled THEN TRUE
               ELSE IF day \notin Get(schedule).days THEN FALSE
               ELSE LET start == MinuteOfDay(Get(schedule).startTime)
                        end == MinuteOfDay(Get(schedule).endTime)
                    IN  IF start <= end THEN start <= t /\ t <= end
                        ELSE t >= start \/ t <= end

(* C18 witness: on Tuesday at 00:02, the last minute of a window that      *)
(* opened at 23:57, a schedule for Monday alone is not active, and one for *)
(* Tuesday would be                                                        *)
C18_Witness ==
    /\ now = 2 * TickMs
    /\ IsSome(returned) /\ ~Get(returned)
    /\ IsSome(Get(call).schedule)
    /\ Get(Get(call).schedule).enabled
    /\ Get(Get(call).schedule).startTime = TimeString(23, 57)
    /\ Get(Get(call).schedule).endTime = TimeString(0, 2)
    /\ Get(Get(call).schedule).days = { "monday" }
    /\ isGeofenceActiveNow(Some([ Get(Get(call).schedule) EXCEPT !.days = { "tuesday" } ]))

(* A polygon without a list of at least 3 vertices, or a circle without    *)
(* its center or its radius                                                *)
InvalidGeometry(geofence) ==
    \/ /\ geofence.shape = "polygon"
       /\ (~IsSome(geofence.coordinates) \/ Len(Get(geofence.coordinates)) < 3)
    \/ /\ geofence.shape = "circle"
       /\ (~IsSome(geofence.center) \/ ~IsSome(geofence.radius))

(* C20: a polygon geofence with fewer than 3 vertices, or a circle         *)
(* geofence without center or radius, contains no point: no event is ever  *)
(* recorded for it.                                                        *)
C20_InvalidGeometryNeverContains ==
    \A i \in SeqIndexes(geofenceEvents) :
       ~InvalidGeometry(Get(geofences[geofenceEvents[i].geofenceId]))

(* C21: every event a step records is for a geofence that exists, belongs  *)
(* to the session of the check that records it, and has active = true when *)
(* the check runs; a geofence that is switched off, or of another session, *)
(* gets no event wherever the samples lie.                                 *)
C21_OnlyActiveOfSession ==
    [][ \A i \in SeqIndexes(NewEvents) :
          LET geofence == geofences[NewEvents[i].geofenceId]
          IN  /\ IsSome(geofence)
              /\ Get(geofence).sessionId = NewEvents[i].sessionId
              /\ Get(geofence).active
              /\ \E job \in scheduledChecks :
                    RanCheck(job) /\ job.sessionId = NewEvents[i].sessionId
      ]_vars

(* C21 witness: the one sample of u1, inside the circle of s1 and inside   *)
(* the polygon of s2, has been evaluated while the circle was switched     *)
(* off: no event was recorded                                              *)
C21_Witness ==
    /\ ~Get(geofences[1]).active
    /\ Get(geofences[2]).active
    /\ accepted = 1 /\ scheduledChecks = {}
    /\ Len(locations) = 1
    /\ locations[1].userId = "u1" /\ locations[1].sessionId = "s1"
    /\ Contains(Get(geofences[1]), locations[1].location)
    /\ Contains(Get(geofences[2]), locations[1].location)
    /\ geofenceEvents = << >>

(* The distance of the point to the center of the circle is at most the    *)
(* radius                                                                  *)
WithinRadius(geofence, point) ==
    isPointInCircle(point, Get(geofence.center), Get(geofence.radius))

(* C22: for a circle with center and radius set and radius >= 0, a sample  *)
(* is inside iff its distance to the center is at most the radius: a check *)
(* records an entry for the circle iff the sample is within the radius and *)
(* the previous sample is missing or was not.                              *)
C22_InsideIffWithinRadius ==
    [][ \A job \in scheduledChecks :
          RanCheck(job)
          => \A id \in SeqIndexes(geofences) :
                ( /\ Evaluated(id, job)
                  /\ Get(geofences[id]).shape = "circle"
                  /\ IsSome(Get(geofences[id]).center)
                  /\ IsSome(Get(geofences[id]).radius)
                  /\ Get(Get(geofences[id]).radius) >= 0 )
                => ( Added(job.userId, id, "entry") # {}
                     <=> /\ WithinRadius(Get(geofences[id]), job.location)
                         /\ ( IsSome(job.previousLocation)
                              => ~WithinRadius(Get(geofences[id]),
                                               Get(job.previousLocation)) ) )
      ]_vars

(* The template of the message for the event type of the dispatch job *)
TemplateText(job) ==
    LET name == Get(geofences[job.geofenceId]).name
    IN  IF job.eventType = "entry" THEN << job.userId, " entered ", name >>
        ELSE IF job.eventType = "exit" THEN << job.userId, " exited ", name >>
        ELSE << "VIOLATION: ", job.userId, " is in restricted zone ", name >>

(* The custom message of the rule of the dispatch job's user, if any *)
RuleCustomMessage(job) ==
    LET rules == Get(geofences[job.geofenceId]).userRules
        own == IF IsSome(rules)
               THEN { i \in SeqIndexes(Get(rules)) : Get(rules)[i].userId = job.userId }
               ELSE {}
    IN  IF own = {} THEN None
        ELSE Get(rules)[CHOOSE i \in own : \A k \in own : i <= k].customMessage

(* The priority of the rule of the dispatch job's user, if any *)
RulePriority(job) ==
    LET rules == Get(geofences[job.geofenceId]).userRules
        own == IF IsSome(rules)
               THEN { i \in SeqIndexes(Get(rules)) : Get(rules)[i].userId = job.userId }
               ELSE {}
    IN  IF own = {} THEN None
        ELSE Get(rules)[CHOOSE i \in own : \A k \in own : i <= k].priority

(* The dispatch of job, in this step, stores one Alert and one Message     *)
(* with this text and only Notifications with this text; the Alert has the *)
(* type and the priority of the rule above                                 *)
DispatchedWith(job, text) ==
    /\ Len(alerts') = Len(alerts) + 1
    /\ alerts'[Len(alerts')].message = text
    /\ alerts'[Len(alerts')].type
         = IF job.eventType = "violation" THEN "emergency" ELSE "geofence"
    /\ alerts'[Len(alerts')].priority
         = IF IsSome(RulePriority(job)) THEN Get(RulePriority(job)) ELSE "medium"
    /\ Len(messages') = Len(messages) + 1
    /\ messages'[Len(messages')].content = text
    /\ \A i \in SeqIndexes(NewNotifications) : NewNotifications[i].message = text

(* C23 as stated: the text is the rule's custom message whenever the rule  *)
(* has one, the empty string included                                      *)
C23_CustomMessageIfSet ==
    [][ \A job \in scheduledAlerts :
          (RanAlert(job) /\ DispatchTargetsExist(job))
          => DispatchedWith(job,
                IF IsSome(RuleCustomMessage(job))
                THEN << Get(RuleCustomMessage(job)) >> ELSE TemplateText(job))
      ]_vars

(* C23: the Alert, the Message and every Notification of one dispatch      *)
(* carry the same text: the custom message of the triggering user's rule   *)
(* if the rule has one that is not the empty string, else the template of  *)
(* the event type; the Alert is "emergency" for a violation and "geofence" *)
(* otherwise, with the rule's priority if set and "medium" otherwise.      *)
C23_OneTextPerDispatch ==
    [][ \A job \in scheduledAlerts :
          (RanAlert(job) /\ DispatchTargetsExist(job))
          => DispatchedWith(job,
                IF IsSome(RuleCustomMessage(job)) /\ Get(RuleCustomMessage(job)) # ""
                THEN << Get(RuleCustomMessage(job)) >> ELSE TemplateText(job))
      ]_vars

(* C23 witness: the violation of u2 in the quarry was dispatched with the  *)
(* custom message and the priority of the rule for u2, to u1 and to u3     *)
C23_Witness ==
    \E a \in SeqIndexes(alerts) :
       /\ alerts[a].createdBy = "u2"
       /\ alerts[a].type = "emergency"
       /\ alerts[a].message = << "keep out" >>
       /\ alerts[a].priority = "high"
       /\ \E m \in SeqIndexes(messages) :
             messages[m].metadata.alertId = a /\ messages[m].content = << "keep out" >>
       /\ \A u \in { "u1", "u3" } :
             \E n \in SeqIndexes(notifications) :
                /\ notifications[n].userId = u
                /\ notifications[n].data.alertId = a
                /\ notifications[n].message = << "keep out" >>

(* The entry and exit events of (user, geofence), in the order of the      *)
(* events table                                                            *)
Transitions(userId, id) ==
    LET Is(e) == /\ e.userId = userId /\ e.geofenceId = id
                 /\ e.eventType \in { "entry", "exit" }
    IN  SelectSeq(geofenceEvents, Is)

(* C24: when the checks of a pair run one at a time in the order of        *)
(* arrival, against a geofence without schedule that is left alone, the    *)
(* entry and exit events of (user, geofence) alternate, and the first one  *)
(* is an entry.                                                            *)
C24_EntriesAndExitsAlternate ==
    \A userId \in Users, id \in SeqIndexes(geofences) :
       \A k \in SeqIndexes(Transitions(userId, id)) :
          Transitions(userId, id)[k].eventType
             = IF k % 2 = 1 THEN "entry" ELSE "exit"

(* C24 witness: u1 went in, out, in and out again, and has the four events *)
C24_Witness ==
    /\ Len(Transitions("u1", 1)) = 4
    /\ Len(locations) = 4
    /\ \A k \in 1 .. 4 :
          /\ locations[k].userId = "u1"
          /\ locations[k].location = IF k % 2 = 1 THEN PIn ELSE POut

(* The types of the events that this step records for geofence id *)
NewTypes(id) ==
    { NewEvents[i].eventType :
        i \in { k \in SeqIndexes(NewEvents) : NewEvents[k].geofenceId = id } }

(* The number of events that this step records for geofence id *)
NewCount(id) ==
    Cardinality({ k \in SeqIndexes(NewEvents) : NewEvents[k].geofenceId = id })

(* C25: one call of checkGeofenceEvents records at most two events for a   *)
(* geofence: never an entry and an exit, never a violation and an exit; a  *)
(* violation comes with an entry or alone.                                 *)
C25_AtMostTwoEventsPerGeofence ==
    [][ \A id \in SeqIndexes(geofences) :
          /\ NewCount(id) <= 2
          /\ NewCount(id) = Cardinality(NewTypes(id))
          /\ ~({ "entry", "exit" } \subseteq NewTypes(id))
          /\ ~({ "violation", "exit" } \subseteq NewTypes(id))
      ]_vars

(* C25 witness: u1 was in the restricted zone and has left it: the first   *)
(* check recorded an entry and a violation, the second one an exit alone   *)
C25_Witness ==
    /\ Restricted(1)
    /\ Len(locations) = 2 /\ scheduledChecks = {}
    /\ locations[1].location = PIn /\ locations[2].location = POut
    /\ Len(geofenceEvents) = 3
    /\ geofenceEvents[1].eventType = "entry"
    /\ geofenceEvents[2].eventType = "violation"
    /\ geofenceEvents[3].eventType = "exit"
    /\ geofenceEvents[3].location = POut

(* The caller is a participant of the geofence's own session, and is the   *)
(* creator of the geofence or an Admin of that session                     *)
Authorized(caller, geofence) ==
    \E i \in ParticipantRows(geofence.sessionId, caller) :
       geofence.createdBy = caller \/ participants[i].role = "Admin"

(* C26: a call of updateGeofence or of deleteGeofence that changes a       *)
(* geofence is made by a participant of the geofence's own session who is  *)
(* its creator or an Admin of that session; any other call changes nothing.*)
C26_OnlyCreatorOrAdminChanges ==
    [][ \A caller \in Callers, id \in SeqIndexes(geofences) :
          /\ \A sessionId \in Sessions, a \in GeofenceArgs :
                ( updateGeofence(caller, id, sessionId, a)
                  /\ geofences' # geofences )
                => ( IsSome(geofences[id])
                     /\ Authorized(caller, Get(geofences[id])) )
          /\ ( deleteGeofence(caller, id) /\ geofences' # geofences )
                => ( IsSome(geofences[id])
                     /\ Authorized(caller, Get(geofences[id])) )
      ]_vars

(* The check of the sample accepted as number seq waits in the scheduler *)
Pending(seq) == \E job \in scheduledChecks : job.seq = seq

(* This step stores one sample and schedules the one check for it *)
StoredAndScheduled ==
    /\ Len(locations') = Len(locations) + 1
    /\ SubSeq(locations', 1, Len(locations)) = locations
    /\ \E job \in scheduledChecks' \ scheduledChecks :
          /\ scheduledChecks' = scheduledChecks \cup { job }
          /\ job.seq = accepted' /\ accepted' = accepted + 1
          /\ job.location = locations'[Len(locations')].location
          /\ job.userId = locations'[Len(locations')].userId
          /\ job.sessionId = locations'[Len(locations')].sessionId

(* C27: a step that stores a sample or schedules a check does both, once:  *)
(* one row, one check for that row, never scheduled before; a call without *)
(* login or by a non-participant stores and schedules nothing; a scheduled *)
(* check is run, and once run it is never pending again.                   *)
C27_EveryAcceptedSampleEvaluatedOnce ==
    /\ [][ /\ ( locations' # locations
                \/ ~(scheduledChecks' \subseteq scheduledChecks) )
              => StoredAndScheduled
           /\ \A caller \in Callers, sessionId \in Sessions,
                 location \in SampleLocations :
                 ( /\ updateLocation(caller, sessionId, location)
                   /\ (caller = NoUser \/ ParticipantRows(sessionId, caller) = {}) )
                 => UNCHANGED << locations, scheduledChecks >>
           /\ \A seq \in 1 .. accepted : ~Pending(seq) => ~Pending(seq)'
         ]_vars
    /\ \A seq \in 1 .. MaxScheduledSamples + 1 : Pending(seq) ~> ~Pending(seq)

(* C27 witness: two samples were accepted and stored, and the check of     *)
(* each has run: the first one recorded the entry, the second one the exit *)
C27_Witness ==
    /\ accepted = 2 /\ Len(locations) = 2 /\ Len(handed) = 2
    /\ scheduledChecks = {}
    /\ locations[1].location = PIn /\ locations[2].location = POut
    /\ \E i, k \in SeqIndexes(geofenceEvents) :
          /\ geofenceEvents[i].eventType = "entry"
          /\ geofenceEvents[i].location = PIn
          /\ geofenceEvents[k].eventType = "exit"
          /\ geofenceEvents[k].location = POut

(* C28: a dispatch that runs when its geofence, its user or its event is   *)
(* no longer stored does not fail and writes nothing: no Alert, no         *)
(* Message, no Notification; the event keeps alertSent = true.             *)
C28_OrphanDispatchDoesNothing ==
    [][ \A job \in scheduledAlerts :
          ( /\ RanAlert(job)
            /\ \/ geofences[job.geofenceId] = None
               \/ job.userId \notin Users
               \/ job.eventId \notin SeqIndexes(geofenceEvents) )
          => /\ failedAlerts' = failedAlerts
             /\ alerts' = alerts
             /\ messages' = messages
             /\ notifications' = notifications
             /\ geofenceEvents' = geofenceEvents
             /\ job.eventId \in SeqIndexes(geofenceEvents)
                  => geofenceEvents'[job.eventId].alertSent
      ]_vars

(* C28 witness: the safe zone was deleted between the check that recorded  *)
(* the entry and its dispatch; the dispatch has run, nothing was created   *)
(* and nothing has failed                                                  *)
C28_Witness ==
    /\ geofences[1] = None
    /\ Len(geofenceEvents) = 1
    /\ geofenceEvents[1].eventType = "entry" /\ geofenceEvents[1].alertSent
    /\ scheduledChecks = {} /\ scheduledAlerts = {}
    /\ failedAlerts = {}
    /\ alerts = << >> /\ messages = << >> /\ notifications = << >>

(* C29: the client's and the backend's isPointInPolygon return the same    *)
(* result for every point and every polygon of at least 3 vertices of the  *)
(* grid, the points on an edge or on a vertex included.                    *)
C29_ClientAgreesWithBackend ==
    DOMAIN Results = { "backend", "client" }
    => Results["backend"] = Results["client"]

(* C30: each (session, user) pair has at most one row in the participants  *)
(* table, whatever createSession and joinByCode calls were made, and no    *)
(* two notifications are for the same recipient and the same event.        *)
C30_OneParticipantRowPerPair ==
    /\ \A i, k \in SeqIndexes(participants) :
          ( /\ participants[i].sessionId = participants[k].sessionId
            /\ participants[i].userId = participants[k].userId ) => i = k
    /\ \A i, k \in SeqIndexes(notifications) :
          ( /\ notifications[i].userId = notifications[k].userId
            /\ notifications[i].data.geofenceEventId
                 = notifications[k].data.geofenceEventId ) => i = k

(* C30 witness: two sessions drew the same share code; u2 has joined with  *)
(* it, which took it into the first one, and the entry of u1 there was     *)
(* dispatched to u2 once                                                   *)
C30_Witness ==
    /\ Len(sessions) = 2
    /\ sessions[1].shareCode = sessions[2].shareCode
    /\ Cardinality(ParticipantRows(sessions[1].id, "u2")) = 1
    /\ ParticipantRows(sessions[2].id, "u2") = {}
    /\ Len(notifications) = 1
    /\ notifications[1].userId = "u2"
    /\ notifications[1].sessionId = sessions[1].id

====
